---- MODULE Spec2Model ----
(***************************************************************************)
(* A model of the downloader service (src/downloader-py): the token codec  *)
(* of crypto.py (encrypt / decrypt) and the request handlers of main.py.   *)
(* Text is a sequence of code points, binary data a sequence of bytes      *)
(* (0..255).  The library functions the code calls (quote, unquote,        *)
(* base64, PKCS#7 pad/unpad, CBC, str/int, split, json) are modelled by    *)
(* what they compute.  The AES block permutation itself is modelled by a   *)
(* keyed, invertible byte-mixing permutation of 16-byte blocks.            *)
(***************************************************************************)
EXTENDS Integers, Sequences, FiniteSets, TLC

\* ------------------------------------------------------------- bounds
\* Clock points are whole seconds 0..MaxSec (and the same past the issuer's
\* default expiry), each with JitterMs milliseconds before and after.
MaxSec == 2
JitterMs == 1
\* Raw key lengths 1..MaxKeyLen.
MaxKeyLen == 40

\* ---------------------------------------------------- program constants
\* AES.block_size, the block the code pads to (crypto.py line 26).
BlockSize == 16
\* expiry=360, the issuer's default TTL in seconds (main.py line 145).
DefaultExpiry == 360
\* ttl * 1000: milliseconds per second (crypto.py line 73).
MsPerSecond == 1000

\* ------------------------------------------------------------ helpers
Min(a, b) == IF a < b THEN a ELSE b

\* s[:n]
Take(s, n) == SubSeq(s, 1, Min(n, Len(s)))

\* s[n:]
Drop(s, n) == SubSeq(s, n + 1, Len(s))

Rep(b, n) == [i \in 1..n |-> b]

RECURSIVE SumRange(_, _, _)
SumRange(s, lo, hi) ==
    IF lo > hi THEN 0
    ELSE IF lo = hi THEN s[lo]
    ELSE LET mid == (lo + hi) \div 2 IN SumRange(s, lo, mid) + SumRange(s, mid + 1, hi)

SumSeq(s) == SumRange(s, 1, Len(s))

\* The concatenation of the sequences pieces[lo], ..., pieces[hi].
RECURSIVE ConcatRange(_, _, _)
ConcatRange(pieces, lo, hi) ==
    IF lo > hi THEN <<>>
    ELSE IF lo = hi THEN pieces[lo]
    ELSE LET mid == (lo + hi) \div 2
         IN ConcatRange(pieces, lo, mid) \o ConcatRange(pieces, mid + 1, hi)

Concat(pieces) == ConcatRange(pieces, 1, Len(pieces))

\* F(v), with v computed once: a local variable of the code.
Bind(v, F(_)) == CHOOSE r \in {F(x) : x \in {v}} : TRUE

\* The result of a call or of a try body: a value returned, or an exception
\* raised: its Python type, its message in parts (str(e) is their
\* concatenation) and, for an HTTPException, its status code.
Return(v) == [kind |-> "return", type |-> "", status_code |-> 0, msg |-> <<>>, value |-> v]

Raise(t, m) == [kind |-> "raise", type |-> t, status_code |-> 0, msg |-> m, value |-> <<>>]

\* ----------------------------------------------------- text <-> bytes
\* str.encode('utf-8')
utf8_encode(s) ==
    Concat([i \in 1..Len(s) |->
        IF s[i] < 128 THEN <<s[i]>>
        ELSE IF s[i] < 2048 THEN <<192 + (s[i] \div 64), 128 + (s[i] % 64)>>
        ELSE <<224 + (s[i] \div 4096), 128 + ((s[i] \div 64) % 64), 128 + (s[i] % 64)>>])

IsCont(b, i) == i >= 1 /\ i <= Len(b) /\ b[i] \in 128..191

\* The number of continuation bytes the lead byte b[i] asks for, -1 when b[i]
\* cannot start a character.
Utf8Need(b, i) ==
    IF b[i] < 128 THEN 0
    ELSE IF b[i] \in 194..223 THEN 1
    ELSE IF b[i] \in 224..239 THEN 2
    ELSE IF b[i] \in 240..244 THEN 3
    ELSE -1

\* b[i] starts a well-formed character: its continuation bytes follow, no
\* more of them than it asks for, and the encoding is neither overlong nor a
\* surrogate nor past U+10FFFF.
Utf8CharOk(b, i) ==
    LET k == Utf8Need(b, i) IN
    /\ k >= 0
    /\ \A j \in 1..k : IsCont(b, i + j)
    /\ ~IsCont(b, i + k + 1)
    /\ (b[i] = 224 => b[i + 1] >= 160)
    /\ (b[i] = 237 => b[i + 1] <= 159)
    /\ (b[i] = 240 => b[i + 1] >= 144)
    /\ (b[i] = 244 => b[i + 1] <= 143)

Utf8CodePoint(b, i) ==
    LET k == Utf8Need(b, i) IN
    IF k = 0 THEN b[i]
    ELSE IF k = 1 THEN (b[i] - 192) * 64 + (b[i + 1] - 128)
    ELSE IF k = 2 THEN (b[i] - 224) * 4096 + (b[i + 1] - 128) * 64 + (b[i + 2] - 128)
    ELSE (b[i] - 240) * 262144 + (b[i + 1] - 128) * 4096 + (b[i + 2] - 128) * 64
         + (b[i + 3] - 128)

\* bytes.decode('utf-8'): the code points, or UnicodeDecodeError.  The
\* characters start at the bytes that are no continuation bytes.
utf8_decode(b) ==
    IF \A i \in 1..Len(b) : b[i] < 128 THEN Return(b)
    ELSE IF IsCont(b, 1) \/ \E i \in 1..Len(b) : ~IsCont(b, i) /\ ~Utf8CharOk(b, i)
    THEN Raise("UnicodeDecodeError", <<"'utf-8' codec can't decode byte">>)
    ELSE Return(Concat([i \in 1..Len(b) |->
                 IF IsCont(b, i) THEN <<>> ELSE <<Utf8CodePoint(b, i)>>]))

\* ------------------------------------------------- urllib.parse.quote
IsAlnum(c) == c \in (48..57) \cup (65..90) \cup (97..122)

\* Never quoted: letters, digits, "_.-~", and the default safe="/".
QuoteSafe(c) == IsAlnum(c) \/ c \in {95, 46, 45, 126, 47}

HexDigit(v) == IF v < 10 THEN 48 + v ELSE 55 + v

quote_bytes(b) ==
    Concat([i \in 1..Len(b) |->
        IF QuoteSafe(b[i]) THEN <<b[i]>>
        ELSE <<37, HexDigit(b[i] \div 16), HexDigit(b[i] % 16)>>])

quote(s) == quote_bytes(utf8_encode(s))

HexVal(c) ==
    IF c \in 48..57 THEN c - 48
    ELSE IF c \in 65..70 THEN c - 55
    ELSE IF c \in 97..102 THEN c - 87
    ELSE -1

\* An escape %XX starts at s[i].  (Its two hex digits are no '%', so whether
\* one starts at i does not depend on the escapes before it.)
IsEscape(s, i) ==
    /\ i >= 1 /\ i + 2 <= Len(s)
    /\ s[i] = 37 /\ HexVal(s[i + 1]) >= 0 /\ HexVal(s[i + 2]) >= 0

\* unquote: every %XX is replaced by its byte, any other % is kept.  The bytes
\* are decoded with errors='replace'; a byte above 127 is given here as
\* U+FFFD, the replacement character (in any case a non-ASCII character).
unquote(s) ==
    Concat([i \in 1..Len(s) |->
        IF IsEscape(s, i)
        THEN LET v == 16 * HexVal(s[i + 1]) + HexVal(s[i + 2])
             IN <<IF v < 128 THEN v ELSE 65533>>
        ELSE IF IsEscape(s, i - 1) \/ IsEscape(s, i - 2) THEN <<>>
        ELSE <<s[i]>>])

\* ------------------------------------------------------------- base64
B64Char(v) ==
    IF v < 26 THEN 65 + v
    ELSE IF v < 52 THEN 97 + (v - 26)
    ELSE IF v < 62 THEN 48 + (v - 52)
    ELSE IF v = 62 THEN 43 ELSE 47

B64Val(c) ==
    IF c \in 65..90 THEN c - 65
    ELSE IF c \in 97..122 THEN c - 71
    ELSE IF c \in 48..57 THEN c + 4
    ELSE IF c = 43 THEN 62
    ELSE IF c = 47 THEN 63
    ELSE -1

\* b[i], or 0 past the end.
ByteAt(b, i) == IF i <= Len(b) THEN b[i] ELSE 0

\* base64.b64encode: three bytes give four characters, '=' fills the last four.
b64encode(b) ==
    [k \in 1..(4 * ((Len(b) + 2) \div 3)) |->
        LET g == 3 * ((k - 1) \div 4)
            p == (k - 1) % 4
            b0 == ByteAt(b, g + 1)
            b1 == ByteAt(b, g + 2)
            b2 == ByteAt(b, g + 3)
        IN IF p = 0 THEN B64Char(b0 \div 4)
           ELSE IF p = 1 THEN B64Char((b0 % 4) * 16 + (b1 \div 16))
           ELSE IF p = 2 THEN (IF g + 2 > Len(b) THEN 61
                               ELSE B64Char((b1 % 16) * 4 + (b2 \div 64)))
           ELSE (IF g + 3 > Len(b) THEN 61 ELSE B64Char(b2 % 64))]

\* The number of alphabet characters among s[1..i-1].
DataBefore(s, i) == Cardinality({j \in 1..(i - 1) : B64Val(s[j]) >= 0})

\* The number of '=' after the last alphabet character of s[1..i-1].
PadsBefore(s, i) ==
    Cardinality({j \in 1..(i - 1) :
        s[j] = 61 /\ \A m \in (j + 1)..(i - 1) : B64Val(s[m]) < 0})

\* binascii.a2b_base64 stops reading at s[i]: a '=' that completes the pad
\* sequence of a group of two or three characters.
PadStop(s, i) ==
    /\ s[i] = 61
    /\ LET quad == DataBefore(s, i) % 4
       IN (quad = 3) \/ (quad = 2 /\ PadsBefore(s, i) >= 1)

\* binascii.a2b_base64 without strict mode: characters outside the alphabet
\* are skipped, a complete pad sequence ends the input, left-over characters
\* raise binascii.Error.
a2b_base64(s) ==
    LET stops == {i \in 1..Len(s) : PadStop(s, i)}
        stop == IF stops = {} THEN Len(s) + 1
                ELSE CHOOSE i \in stops : \A j \in stops : i <= j
        data == SelectSeq(SubSeq(s, 1, stop - 1), LAMBDA c : B64Val(c) >= 0)
        v == [j \in 1..Len(data) |-> B64Val(data[j])]
        quad == Len(v) % 4
        out == [k \in 1..((Len(v) * 6) \div 8) |->
                  LET g == 4 * ((k - 1) \div 3)
                      p == (k - 1) % 3
                  IN IF p = 0 THEN v[g + 1] * 4 + (v[g + 2] \div 16)
                     ELSE IF p = 1 THEN (v[g + 2] % 16) * 16 + (v[g + 3] \div 4)
                     ELSE (v[g + 3] % 4) * 64 + v[g + 4]]
    IN IF stops # {} \/ quad = 0 THEN Return(out)
       ELSE IF quad = 1
       THEN Raise("binascii.Error", <<"Invalid base64-encoded string: number of data characters cannot be 1 more than a multiple of 4">>)
       ELSE Raise("binascii.Error", <<"Incorrect padding">>)

\* base64.b64decode(str): the str must be ASCII.
b64decode(s) ==
    IF \E i \in 1..Len(s) : s[i] > 127
    THEN Raise("ValueError", <<"string argument should contain only ASCII characters">>)
    ELSE a2b_base64(s)

\* ------------------------------------------- Crypto.Util.Padding (pkcs7)
pad(data, block_size) ==
    LET padding_len == block_size - (Len(data) % block_size)
    IN data \o Rep(padding_len, padding_len)

unpad(padded, block_size) ==
    LET n == Len(padded) IN
    IF n = 0 THEN Raise("ValueError", <<"Zero-length input cannot be unpadded">>)
    ELSE IF n % block_size # 0 THEN Raise("ValueError", <<"Input data is not padded">>)
    ELSE LET padding_len == padded[n] IN
         IF padding_len < 1 \/ padding_len > Min(block_size, n)
         THEN Raise("ValueError", <<"Padding is incorrect.">>)
         ELSE IF SubSeq(padded, n - padding_len + 1, n) # Rep(padding_len, padding_len)
         THEN Raise("ValueError", <<"PKCS#7 padding is incorrect.">>)
         ELSE Return(SubSeq(padded, 1, n - padding_len))

\* --------------------------------------------------- AES in CBC mode
XorBit(a, b, p) == (((a \div p) + (b \div p)) % 2) * p

Xor(a, b) ==
    XorBit(a, b, 1) + XorBit(a, b, 2) + XorBit(a, b, 4) + XorBit(a, b, 8)
    + XorBit(a, b, 16) + XorBit(a, b, 32) + XorBit(a, b, 64) + XorBit(a, b, 128)

XorBlock(x, y) == [j \in 1..Len(x) |-> Xor(x[j], y[j])]

\* The key schedule, reduced to one byte that depends on every key byte, on
\* its position and on the key length.
KeyHash(key) == (SumSeq([i \in 1..Len(key) |-> i * key[i]]) + 7 * Len(key)) % 256

\* The block permutation: every output byte depends on the key and on every
\* input byte.  (s + 16 s = 17 s, and 17 * 241 = 1 mod 256, gives the inverse.)
AES_encrypt_block(key, x) ==
    LET h == KeyHash(key)
        s == SumSeq(x) % 256
    IN [j \in 1..Len(x) |-> (x[j] + s + h + j) % 256]

AES_decrypt_block(key, y) ==
    LET h == KeyHash(key)
        t == (SumSeq(y) + 256 * 20 - 16 * h - 136) % 256
        s == (241 * t) % 256
    IN [j \in 1..Len(y) |-> (y[j] + 256 * 3 - s - h - j) % 256]

RECURSIVE cbc_encrypt(_, _, _)
cbc_encrypt(key, prev, data) ==
    IF data = <<>> THEN <<>>
    ELSE LET c == AES_encrypt_block(key, XorBlock(Take(data, BlockSize), prev))
         IN c \o cbc_encrypt(key, c, Drop(data, BlockSize))

RECURSIVE cbc_decrypt(_, _, _)
cbc_decrypt(key, prev, data) ==
    IF data = <<>> THEN <<>>
    ELSE LET c == Take(data, BlockSize)
         IN XorBlock(AES_decrypt_block(key, c), prev) \o cbc_decrypt(key, c, Drop(data, BlockSize))

\* ------------------------------------------------- str(int), int(str)
RECURSIVE Digits(_)
Digits(n) == IF n < 10 THEN <<48 + n>> ELSE Digits(n \div 10) \o <<48 + (n % 10)>>

\* f"{n}"
str(n) == IF n < 0 THEN <<45>> \o Digits(0 - n) ELSE Digits(n)

IsSpace(c) == c \in (9..13) \cup (28..32)

RECURSIVE lstrip(_)
lstrip(s) == IF s # <<>> /\ IsSpace(s[1]) THEN lstrip(Tail(s)) ELSE s

RECURSIVE rstrip(_)
rstrip(s) == IF s # <<>> /\ IsSpace(s[Len(s)]) THEN rstrip(SubSeq(s, 1, Len(s) - 1)) ELSE s

\* The digits of an int literal: single underscores may separate digits.
RECURSIVE int_digits(_, _, _)
int_digits(s, i, acc) ==
    IF i > Len(s) THEN acc
    ELSE IF s[i] \in 48..57 THEN int_digits(s, i + 1, 10 * acc + (s[i] - 48))
    ELSE IF s[i] = 95 /\ i > 1 /\ i < Len(s) /\ s[i - 1] \in 48..57 /\ s[i + 1] \in 48..57
         THEN int_digits(s, i + 1, acc)
    ELSE -1

\* int(s): white space stripped, an optional sign, decimal digits.
int(s) ==
    LET t == rstrip(lstrip(s))
        signed == t # <<>> /\ t[1] \in {43, 45}
        d == IF signed THEN Tail(t) ELSE t
        v == IF d = <<>> THEN -1 ELSE int_digits(d, 1, 0)
    IN IF v < 0 THEN Raise("ValueError", <<"invalid literal for int() with base 10">>)
       ELSE Return(IF signed /\ t[1] = 45 THEN 0 - v ELSE v)

\* ------------------------------------------------------ str.split(sep)
\* "_*_"
Delim == <<95, 42, 95>>

\* The first place at or after `from` where sep occurs in s, 0 when none.
NextMatch(s, sep, from) ==
    LET m == {i \in from..(Len(s) - Len(sep) + 1) : SubSeq(s, i, i + Len(sep) - 1) = sep}
    IN IF m = {} THEN 0 ELSE CHOOSE i \in m : \A j \in m : i <= j

RECURSIVE split_from(_, _, _)
split_from(s, sep, from) ==
    LET m == NextMatch(s, sep, from) IN
    IF m = 0 THEN <<SubSeq(s, from, Len(s))>>
    ELSE <<SubSeq(s, from, m - 1)>> \o split_from(s, sep, m + Len(sep))

\* s.split(sep): the pieces between the occurrences of sep, found left to right.
split(s, sep) == split_from(s, sep, 1)

\* ------------------------------------------------------------ crypto.py
ValidKeyLengths == {16, 24, 32}

\* encrypt, lines 16-22: str keys are encoded; a key of another length is
\* padded to the block and cut to 32 bytes.
encrypt_key(key) ==
    LET kb == utf8_encode(key)
    IN IF Len(kb) \notin ValidKeyLengths THEN Take(pad(kb, BlockSize), 32) ELSE kb

\* A normalisation that keeps one block of the padded key.
one_block_key(key) == Take(pad(utf8_encode(key), BlockSize), BlockSize)

\* decrypt, lines 54-60: the same steps, written a second time.
decrypt_key(key) ==
    LET kb == utf8_encode(key)
    IN IF Len(kb) \notin ValidKeyLengths THEN Take(pad(kb, BlockSize), 32) ELSE kb

\* f"{timestamp}_*_{ttl_in_seconds}_*_{text}" (line 14)
text_with_timestamp(timestamp, ttl_in_seconds, text) ==
    str(timestamp) \o Delim \o str(ttl_in_seconds) \o Delim \o text

\* encrypt(text, key, ttl_in_seconds), called when time.time() * 1000 is
\* `clock` and the cipher draws `iv`.
encrypt(text, key, ttl_in_seconds, clock, iv) ==
    LET k == encrypt_key(key)
        ct_bytes == cbc_encrypt(k, iv,
                        pad(utf8_encode(text_with_timestamp(clock, ttl_in_seconds, text)), BlockSize))
        ct_with_iv == iv \o ct_bytes
        encrypted_b64 == b64encode(ct_with_iv)
    IN quote(encrypted_b64)

\* Lines 72-77: the expiry test.
is_expired(current_time, timestamp, ttl) ==
    current_time > timestamp + (ttl * MsPerSecond)

\* Lines 69-79: parse the two numbers, check the expiry.
decrypt_parts(parts, clock) ==
    Bind(int(parts[1]),
         LAMBDA timestamp :
            IF timestamp.kind = "raise" THEN timestamp
            ELSE Bind(int(parts[2]),
                      LAMBDA ttl :
                         IF ttl.kind = "raise" THEN ttl
                         ELSE IF is_expired(clock, timestamp.value, ttl.value)
                         THEN Raise("ValueError", <<"Link expired and cannot be decrypted.">>)
                         ELSE Return(parts[3])))

\* Lines 68-79: split the fields, parse the numbers, check the expiry.
decrypt_fields(decrypted, clock) ==
    Bind(split(decrypted, Delim),
         LAMBDA parts :
            IF Len(parts) < 3
            THEN Raise("ValueError", <<"not enough values to unpack (expected 3)">>)
            ELSE IF Len(parts) > 3
            THEN Raise("ValueError", <<"too many values to unpack (expected 3)">>)
            ELSE decrypt_parts(parts, clock))

\* Lines 65-79: unpad, decode, and the fields.
decrypt_padded(padded, clock) ==
    Bind(unpad(padded, BlockSize),
         LAMBDA decrypted_padded :
            IF decrypted_padded.kind = "raise" THEN decrypted_padded
            ELSE Bind(utf8_decode(decrypted_padded.value),
                      LAMBDA decrypted : IF decrypted.kind = "raise" THEN decrypted
                                         ELSE decrypt_fields(decrypted.value, clock)))

\* Lines 63-79: the cipher, given the key k it is made with.
decrypt_cipher(iv, ct, k, clock) ==
    IF Len(k) \notin ValidKeyLengths
    THEN Raise("ValueError", <<"Incorrect AES key length">>)
    ELSE IF Len(iv) # BlockSize
    THEN Raise("ValueError", <<"Incorrect IV length (it must be 16 bytes long)">>)
    ELSE IF Len(ct) % BlockSize # 0
    THEN Raise("ValueError", <<"Data must be padded to 16 byte boundary in CBC mode">>)
    ELSE Bind(cbc_decrypt(k, iv, ct), LAMBDA padded : decrypt_padded(padded, clock))

\* Lines 51-79: from the decoded bytes on.
decrypt_bytes(encrypted_bytes, key, clock) ==
    IF encrypted_bytes.kind = "raise" THEN encrypted_bytes
    ELSE Bind(decrypt_key(key),
              LAMBDA k : decrypt_cipher(Take(encrypted_bytes.value, BlockSize),
                                        Drop(encrypted_bytes.value, BlockSize), k, clock))

\* The body of decrypt's try block (lines 44-79), run at time `clock`.
decrypt_try(encrypted_text, key, clock) ==
    Bind(unquote(encrypted_text),
         LAMBDA decoded_text : Bind(b64decode(decoded_text),
                                    LAMBDA encrypted_bytes : decrypt_bytes(encrypted_bytes, key, clock)))

\* A handler that lets the exception through as it was raised.
decrypt_reraise(e) == e

\* Lines 81-82: except Exception as e: raise ValueError(f"Decryption failed: {str(e)}")
decrypt_except(e) == Raise("ValueError", <<"Decryption failed: ">> \o e.msg)

\* decrypt(encrypted_text, key), called when time.time() * 1000 is `clock`.
decrypt(encrypted_text, key, clock) ==
    Bind(decrypt_try(encrypted_text, key, clock),
         LAMBDA r : IF r.kind = "raise" THEN decrypt_except(r) ELSE r)

\* ================================================================= json
\* json.dumps and json.loads over what the payloads of this program hold: an
\* object whose values are strings or null (true, false and whole numbers are
\* read as well). A value is [t |-> its JSON type, s |-> its text]; nested
\* arrays and objects are in no payload of the model and are read as an error.
JsonStr(text) == [t |-> "str", s |-> text]

None == [t |-> "null", s |-> <<>>]

Hex4(c) ==
    <<HexDigit((c \div 4096) % 16), HexDigit((c \div 256) % 16),
      HexDigit((c \div 16) % 16), HexDigit(c % 16)>>

LowerHex(d) == IF d >= 65 /\ d <= 70 THEN d + 32 ELSE d

\* One character of a string as json.dumps (ensure_ascii) writes it.
JsonEscape(c) ==
    IF c = 34 THEN <<92, 34>>
    ELSE IF c = 92 THEN <<92, 92>>
    ELSE IF c = 10 THEN <<92, 110>>
    ELSE IF c = 13 THEN <<92, 114>>
    ELSE IF c = 9 THEN <<92, 116>>
    ELSE IF c = 8 THEN <<92, 98>>
    ELSE IF c = 12 THEN <<92, 102>>
    ELSE IF c < 32 \/ c > 126
    THEN LET h == Hex4(c) IN <<92, 117>> \o [i \in 1..4 |-> LowerHex(h[i])]
    ELSE <<c>>

json_dumps_value(v) ==
    IF v.t = "str"
    THEN <<34>> \o Concat([i \in 1..Len(v.s) |-> JsonEscape(v.s[i])]) \o <<34>>
    ELSE IF v.t = "null" THEN <<110, 117, 108, 108>>
    ELSE IF v.t = "true" THEN <<116, 114, 117, 101>>
    ELSE IF v.t = "false" THEN <<102, 97, 108, 115, 101>>
    ELSE v.s

\* json.dumps of a dict, given as its items <<key, value>> in order.
json_dumps(items) ==
    <<123>> \o
    Concat([i \in 1..Len(items) |->
               (IF i > 1 THEN <<44, 32>> ELSE <<>>) \o
               json_dumps_value(JsonStr(items[i][1])) \o <<58, 32>> \o
               json_dumps_value(items[i][2])]) \o
    <<125>>

JsonWs == {32, 9, 10, 13}

CharAt(s, i) == IF i >= 1 /\ i <= Len(s) THEN s[i] ELSE 0 - 1

SkipWs(s, i) ==
    LET rest == {j \in i..Len(s) : s[j] \notin JsonWs}
    IN IF rest = {} THEN Len(s) + 1 ELSE CHOOSE j \in rest : \A k \in rest : j <= k

StartsWith(s, i, lit) ==
    /\ i + Len(lit) - 1 <= Len(s)
    /\ SubSeq(s, i, i + Len(lit) - 1) = lit

\* The backslashes that stand immediately before position k.
BackslashRun(s, k) ==
    IF k <= 1 \/ s[k - 1] # 92 THEN 0
    ELSE Cardinality({m \in 1..(k - 1) : \A q \in m..(k - 1) : s[q] = 92})

\* A backslash that starts an escape.
IsIntro(s, k) == k >= 1 /\ k <= Len(s) /\ s[k] = 92 /\ BackslashRun(s, k) % 2 = 0

IsHex(c) == HexVal(c) >= 0

\* The \uXXXX escape whose digits cover position k, if any: the position of its u.
UnicodeAt(s, k) == {u \in (k - 4)..(k - 1) : u >= 2 /\ s[u] = 117 /\ IsIntro(s, u - 1)}

SimpleEscape(c) ==
    IF c = 34 THEN 34 ELSE IF c = 92 THEN 92 ELSE IF c = 47 THEN 47
    ELSE IF c = 98 THEN 8 ELSE IF c = 102 THEN 12 ELSE IF c = 110 THEN 10
    ELSE IF c = 114 THEN 13 ELSE IF c = 116 THEN 9 ELSE 0 - 1

\* What position k of a string literal ending before j adds to the string:
\* <<>> for a backslash or a digit of \uXXXX, <<-1>> for what json.loads rejects.
StringPiece(s, k, j) ==
    IF IsIntro(s, k) THEN <<>>
    ELSE IF IsIntro(s, k - 1)
    THEN IF s[k] = 117
         THEN IF k + 4 < j /\ \A d \in 1..4 : IsHex(s[k + d])
              THEN <<4096 * HexVal(s[k + 1]) + 256 * HexVal(s[k + 2]) + 16 * HexVal(s[k + 3]) + HexVal(s[k + 4])>>
              ELSE <<0 - 1>>
         ELSE <<SimpleEscape(s[k])>>
    ELSE IF UnicodeAt(s, k) # {} THEN <<>>
    ELSE IF s[k] < 32 THEN <<0 - 1>>
    ELSE <<s[k]>>

\* The string literal that opens at position i and closes at position j.
StringLiteral(s, i, j) ==
    Bind(Concat([n \in 1..(j - i - 1) |-> StringPiece(s, i + n, j)]),
         LAMBDA val : IF \E n \in 1..Len(val) : val[n] < 0
                      THEN [ok |-> FALSE, v |-> None, next |-> i]
                      ELSE [ok |-> TRUE, v |-> JsonStr(val), next |-> j + 1])

\* The string literal that opens at position i.
ParseString(s, i) ==
    Bind({j \in (i + 1)..Len(s) : s[j] = 34 /\ BackslashRun(s, j) % 2 = 0},
         LAMBDA ends : IF ends = {} THEN [ok |-> FALSE, v |-> None, next |-> i]
                       ELSE StringLiteral(s, i, CHOOSE e \in ends : \A k \in ends : e <= k))

\* A whole number: -?(0|[1-9][0-9]*)
ParseNumber(s, i) ==
    LET d0 == IF CharAt(s, i) = 45 THEN i + 1 ELSE i
        stop == {j \in d0..(Len(s) + 1) : CharAt(s, j) < 48 \/ CharAt(s, j) > 57}
    IN Bind(CHOOSE j \in stop : \A k \in stop : j <= k,
            LAMBDA e :
               IF e = d0 THEN [ok |-> FALSE, v |-> None, next |-> i]
               ELSE IF s[d0] = 48
               THEN [ok |-> TRUE, v |-> [t |-> "num", s |-> SubSeq(s, i, d0)], next |-> d0 + 1]
               ELSE [ok |-> TRUE, v |-> [t |-> "num", s |-> SubSeq(s, i, e - 1)], next |-> e])

ParseScalar(s, i) ==
    IF CharAt(s, i) = 34 THEN ParseString(s, i)
    ELSE IF StartsWith(s, i, <<110, 117, 108, 108>>) THEN [ok |-> TRUE, v |-> None, next |-> i + 4]
    ELSE IF StartsWith(s, i, <<116, 114, 117, 101>>)
    THEN [ok |-> TRUE, v |-> [t |-> "true", s |-> <<>>], next |-> i + 4]
    ELSE IF StartsWith(s, i, <<102, 97, 108, 115, 101>>)
    THEN [ok |-> TRUE, v |-> [t |-> "false", s |-> <<>>], next |-> i + 5]
    ELSE ParseNumber(s, i)

NoParse == [ok |-> FALSE, items |-> <<>>, next |-> 0]

RECURSIVE ParseMembers(_, _, _)
\* After the member `key: value`, which ends before position `after`.
ParseRest(s, after, items) ==
    IF CharAt(s, after) = 44
    THEN Bind(SkipWs(s, after + 1), LAMBDA i : ParseMembers(s, i, items))
    ELSE IF CharAt(s, after) = 125
    THEN [ok |-> TRUE, items |-> items, next |-> after + 1]
    ELSE NoParse

\* The value of the member whose key k was read, from position i on.
ParseMemberValue(s, i, k, acc) ==
    Bind(ParseScalar(s, i),
         LAMBDA v : IF ~v.ok THEN NoParse
                    ELSE Bind(SkipWs(s, v.next),
                              LAMBDA after : Bind(Append(acc, <<k.v.s, v.v>>),
                                                  LAMBDA items : ParseRest(s, after, items))))

\* The members of an object from position i on, up to its closing brace.
ParseMembers(s, i, acc) ==
    IF CharAt(s, i) # 34 THEN NoParse
    ELSE Bind(ParseString(s, i),
              LAMBDA k : IF ~k.ok THEN NoParse
                         ELSE Bind(SkipWs(s, k.next),
                                   LAMBDA c : IF CharAt(s, c) # 58 THEN NoParse
                                              ELSE Bind(SkipWs(s, c + 1),
                                                        LAMBDA i2 : ParseMemberValue(s, i2, k, acc))))

ParseObject(s, i) ==
    Bind(SkipWs(s, i + 1),
         LAMBDA j : IF CharAt(s, j) = 125
                    THEN [ok |-> TRUE, items |-> <<>>, next |-> j + 1]
                    ELSE ParseMembers(s, j, <<>>))

JSONDecodeError == Raise("JSONDecodeError", <<"Expecting value">>)

\* json.loads(s), its first character that is no white space at position i.
json_loads_from(s, i) ==
    IF CharAt(s, i) = 123
    THEN Bind(ParseObject(s, i),
              LAMBDA o : IF o.ok /\ SkipWs(s, o.next) = Len(s) + 1
                         THEN Return([t |-> "dict", items |-> o.items])
                         ELSE JSONDecodeError)
    ELSE Bind(ParseScalar(s, i),
              LAMBDA v : IF v.ok /\ SkipWs(s, v.next) = Len(s) + 1
                         THEN Return([t |-> v.v.t, items |-> <<>>])
                         ELSE JSONDecodeError)

\* json.loads(s): a dict as [t |-> "dict", items |-> ...], any other value as
\* its type alone.
json_loads(s) == Bind(SkipWs(s, 1), LAMBDA i : json_loads_from(s, i))

\* dict.get(key): the value of the last item with that key, None without one.
dict_get(d, key) ==
    LET at == {i \in 1..Len(d.items) : d.items[i][1] = key}
    IN IF at = {} THEN None
       ELSE d.items[CHOOSE i \in at : \A k \in at : i >= k][2]

\* bool(v)
Truthy(v) ==
    \/ v.t = "str" /\ v.s # <<>>
    \/ v.t = "true"
    \/ v.t = "num" /\ \E i \in 1..Len(v.s) : v.s[i] \in 49..57

\* f"{v}"
Format(v) ==
    IF v.t = "null" THEN <<78, 111, 110, 101>>
    ELSE IF v.t = "true" THEN <<84, 114, 117, 101>>
    ELSE IF v.t = "false" THEN <<70, 97, 108, 115, 101>>
    ELSE v.s

\* ============================================================== main.py
\* BASE_URL = os.getenv("BASE_URL", "https://d.snaptik.fit")
BASE_URL == <<104, 116, 116, 112, 115, 58, 47, 47, 100, 46, 115, 110, 97, 112, 116, 105, 107, 46, 102, 105, 116>>

\* ENCRYPTION_KEY = os.getenv("ENCRYPTION_KEY", "overflow")
ENCRYPTION_KEY == <<111, 118, 101, 114, 102, 108, 111, 119>>

\* The items of {"url": url, "author": author_nickname, "type": media_type}
link_payload(url, author_nickname, media_type) ==
    << <<<<117, 114, 108>>, url>>, <<<<97, 117, 116, 104, 111, 114>>, author_nickname>>, <<<<116, 121, 112, 101>>, media_type>> >>

\* generate_encrypted_download_link(url, author_nickname, media_type,
\* encryption_key, base_url, expiry), called at `clock` with the cipher drawing
\* `iv`: <<the link>>, or <<>> for None.
generate_encrypted_download_link(url, author_nickname, media_type, encryption_key, base_url, expiry, clock, iv) ==
    IF ~Truthy(url) THEN <<>>
    ELSE LET encrypted_url == encrypt(json_dumps(link_payload(url, author_nickname, media_type)),
                                      encryption_key, expiry, clock, iv)
         IN <<base_url \o <<47, 100, 111, 119, 110, 108, 111, 97, 100, 63, 100, 97, 116, 97, 61>> \o encrypted_url>>

\* raise HTTPException(status_code=..., detail=...)
HTTPException(status_code, detail) ==
    [kind |-> "raise", type |-> "HTTPException", status_code |-> status_code, msg |-> detail, value |-> <<>>]

\* str(e): an HTTPException reads "status_code: detail"
str_exception(e) ==
    IF e.type = "HTTPException" THEN <<ToString(e.status_code), ": ">> \o e.msg ELSE e.msg

\* A lookup that names the audio kind "audio".
content_type_map_audio ==
    (<<97, 117, 100, 105, 111>> :> [content_type |-> "audio/mpeg", file_extension |-> <<109, 112, 51>>]) @@
    (<<118, 105, 100, 101, 111>> :> [content_type |-> "video/mp4", file_extension |-> <<109, 112, 52>>]) @@
    (<<105, 109, 97, 103, 101>> :> [content_type |-> "image/jpeg", file_extension |-> <<106, 112, 103>>])

\* content_type_map (lines 382-386): mp3, video, image
content_type_map ==
    (<<109, 112, 51>> :> [content_type |-> "audio/mpeg", file_extension |-> <<109, 112, 51>>]) @@
    (<<118, 105, 100, 101, 111>> :> [content_type |-> "video/mp4", file_extension |-> <<109, 112, 52>>]) @@
    (<<105, 109, 97, 103, 101>> :> [content_type |-> "image/jpeg", file_extension |-> <<106, 112, 103>>])

\* A check of the url alone.
url_present(url, author, file_type) == Truthy(url)

\* Line 378: not (not url or not author or not file_type)
fields_present(url, author, file_type) == Truthy(url) /\ Truthy(author) /\ Truthy(file_type)

\* Line 388: file_type in content_type_map
type_supported(file_type) == file_type.t = "str" /\ file_type.s \in DOMAIN content_type_map

\* The StreamingResponse of lines 408-415, its body not yet begun.
streaming_response(url, author, file_type) ==
    LET entry == content_type_map[file_type.s]
        filename == Format(author) \o <<46>> \o entry.file_extension
    IN Return([url |-> Format(url), media_type |-> entry.content_type, x_filename |-> quote(filename)])

\* Lines 373-415: the checks on the parsed payload, and the response.
download_checks(parsed_data) ==
    IF parsed_data.t # "dict"
    THEN Raise("AttributeError", <<"object has no attribute 'get'">>)
    ELSE
    LET url == dict_get(parsed_data, <<117, 114, 108>>)
        author == dict_get(parsed_data, <<97, 117, 116, 104, 111, 114>>)
        file_type == dict_get(parsed_data, <<116, 121, 112, 101>>)
    IN IF ~fields_present(url, author, file_type)
       THEN HTTPException(400, <<"Invalid decrypted data: missing url, author, or type">>)
       ELSE IF ~type_supported(file_type)
       THEN HTTPException(400, <<"Invalid file type specified">>)
       ELSE streaming_response(url, author, file_type)

\* Line 371 on: parsed_data = json.loads(decrypted_data)
download_parsed(decrypted_data) ==
    IF decrypted_data.kind = "raise" THEN decrypted_data
    ELSE Bind(json_loads(decrypted_data.value),
              LAMBDA parsed_data : IF parsed_data.kind = "raise" THEN parsed_data
                                   ELSE download_checks(parsed_data.value))

\* The try body of download_endpoint (lines 370-415), run at time `clock`.
download_try(data, clock) == Bind(decrypt(data, ENCRYPTION_KEY, clock), download_parsed)

\* Lines 417-418: except Exception as e: raise HTTPException(500, ...)
download_except(r) ==
    IF r.kind = "raise"
    THEN HTTPException(500, <<"Error downloading file: ">> \o str_exception(r))
    ELSE r

\* download_endpoint(data) up to its return (lines 363-418): the response to
\* stream, or the HTTPException the request ends with.
download_endpoint(data, clock) ==
    IF data = <<>>
    THEN HTTPException(400, <<"Encrypted data parameter is required">>)
    ELSE Bind(download_try(data, clock), download_except)

\* The query parameter `data` of a request line: '+' reads as a space, then
\* the percent escapes are undone.
query_param(raw) == unquote([i \in 1..Len(raw) |-> IF raw[i] = 43 THEN 32 ELSE raw[i]])

\* ================================================================ state
VARIABLES
    now,        \* int(time.time() * 1000), the wall clock in milliseconds
    tok,        \* the token under test in the codec specifications
    call,       \* the encrypt call (or forgery) that made tok
    origin,     \* how tok came about: none, encrypt, tamper, forge, garbage
    out,        \* the outcome of the decrypt call made at this instant
    outKey,     \* the key that call was given
    link,       \* the download link issued, and the descriptor it was issued for
    req,        \* the /download requests: the handler's position, what the client has seen
    file_timestamps,  \* the module-level dict: folder path -> time.time() of its creation
    temp_dir,   \* the folders under TEMP_DIR: folder path -> its mtime
    files,      \* the files in those folders: folder path -> (file name -> content)
    job,        \* the /download-slideshow requests: the handler's position and locals
    cleanup,    \* run_cleanup_scheduler: when its sleep ends, and what its last pass did
    tiktok      \* the POST /tiktok request: the handler's position and what it returned

codecVars == <<tok, call, origin, out, outKey>>

workspaceVars == <<file_timestamps, temp_dir>>

slideshowVars == <<files, job, cleanup>>

gatewayVars == <<link, req, file_timestamps, temp_dir, files, job, cleanup, tiktok>>

vars == <<now, tok, call, origin, out, outKey, link, req, file_timestamps, temp_dir, files, job, cleanup, tiktok>>

\* A key of an accepted length: "0123456789abcdef"
Key16 == <<48, 49, 50, 51, 52, 53, 54, 55, 56, 57, 97, 98, 99, 100, 101, 102>>

CodecKeys == {ENCRYPTION_KEY, Key16}

\* Payloads: "hi", "", "*_", "a_*_b", "e-acute", "https://ex/a"
CodecTexts == {<<104, 105>>, <<>>, <<42, 95>>, <<97, 95, 42, 95, 98>>, <<233>>, <<104, 116, 116, 112, 115, 58, 47, 47, 101, 120, 47, 97>>}

CodecTTLs == {1, 2}

\* The initialisation vectors the cipher may draw (os.urandom in the library).
IVOf(seed) == [i \in 1..BlockSize |-> (seed * i + 3) % 256]

IVs == {IVOf(7), IVOf(200)}

\* The instants the clock is read at: around every whole second.
ClockAround(seconds) ==
    {t \in {s * MsPerSecond + d : s \in seconds, d \in (0 - JitterMs)..JitterMs} : t >= 0}

CodecClock == ClockAround(0..MaxSec)

NoCall == [text |-> <<>>, key |-> <<>>, ttl |-> 0, t0 |-> 0, iv |-> <<>>]

NoOutcome == [kind |-> "none", type |-> "", status_code |-> 0, msg |-> <<>>, value |-> <<>>]

NoLink == [result |-> <<>>, url |-> None, author |-> None, type |-> None]

\* The request slots, and a slot no request has arrived on.
AllReqs == {"r1", "r2"}

IdleReq ==
    [pc |-> "idle", data |-> <<>>, at |-> 0, gzip |-> FALSE, result |-> NoOutcome,
     fetched |-> <<>>, origin_status |-> 0, status |-> 0, detail |-> <<>>,
     chunks |-> 0, closed |-> "open"]

\* file_timestamps = {} (line 35), and TEMP_DIR just made
NoFolders == [f \in {} |-> 0]

\* No file at all under TEMP_DIR.
NoFiles == [f \in {} |-> <<>>]

\* The /download-slideshow request slots, and a slot no request has arrived on.
AllJobs == {"j1", "j2"}

NoPost == [type |-> "", aweme_id |-> <<>>, uid |-> <<>>, image_urls |-> <<>>, audio_url |-> <<>>]

IdleJob ==
    [pc |-> "idle", post |-> NoPost, temp_dir |-> <<>>, at |-> 0 - 1,
     downloads |-> <<>>, arrived |-> <<>>, audio |-> "", image_paths |-> <<>>,
     cmd |-> <<>>, reads |-> <<>>, returncode |-> 0 - 1,
     status |-> 0, cause |-> "", body |-> <<>>, url |-> <<>>, decrypted_url |-> <<>>]

\* No POST /tiktok request yet.
NoTiktok == [pc |-> "idle", url |-> <<>>, at |-> 0 - 1, data |-> None, status |-> 0, response |-> <<>>]

\* No pass of cleanup_temp_files yet.
NoPass == [at |-> 0 - 1, expired |-> {}, removed |-> {}, failed |-> {}]

\* The scheduler task as startup creates it: its first pass is due at once.
AtStartup == [due |-> 0, last |-> NoPass]

CodecInit ==
    /\ now = 0
    /\ tok = <<>>
    /\ call = NoCall
    /\ origin = "none"
    /\ out = NoOutcome
    /\ outKey = <<>>
    /\ link = NoLink
    /\ req = [r \in AllReqs |-> IdleReq]
    /\ file_timestamps = NoFolders
    /\ temp_dir = NoFolders
    /\ files = NoFiles
    /\ job = [j \in AllJobs |-> IdleJob]
    /\ cleanup = AtStartup
    /\ tiktok = NoTiktok

\* time passes; the outcome of a call belongs to the instant of the call
Tick(t) ==
    /\ t > now
    /\ now' = t
    /\ out' = NoOutcome
    /\ outKey' = <<>>
    /\ UNCHANGED <<tok, call, origin>>
    /\ UNCHANGED gatewayVars

\* token = encrypt(text, key, ttl)
Encrypt(text, key, ttl, iv) ==
    /\ origin = "none"
    /\ tok' = encrypt(text, key, ttl, now, iv)
    /\ call' = [text |-> text, key |-> key, ttl |-> ttl, t0 |-> now, iv |-> iv]
    /\ origin' = "encrypt"
    /\ UNCHANGED <<now, out, outKey>>
    /\ UNCHANGED gatewayVars

\* decrypt(tok, key)
Decrypt(key) ==
    /\ origin # "none"
    /\ out = NoOutcome
    /\ out' = decrypt(tok, key, now)
    /\ outKey' = key
    /\ UNCHANGED <<now, tok, call, origin>>
    /\ UNCHANGED gatewayVars

\* --------------------------------------- tokens no encrypt call produced
\* The bytes a token carries, and the token that carries given bytes.
WireOf(token) == b64decode(unquote(token)).value

TokenOfWire(bytes) == quote(b64encode(bytes))

\* What a client can make of a token it was given, without the key.
Tampered(token) ==
    LET w == WireOf(token)
        n == Len(w)
    IN { SubSeq(token, 1, Len(token) - 1),                 \* last character cut
         TokenOfWire(SubSeq(w, 1, n - 1)),                 \* last byte cut
         TokenOfWire([w EXCEPT ![n] = Xor(w[n], 1)]),      \* last byte changed
         TokenOfWire(Take(w, BlockSize \div 2)),           \* half an IV
         TokenOfWire(Take(w, BlockSize)) }                 \* the IV alone

Tamper(t) ==
    /\ origin = "encrypt"
    /\ out = NoOutcome
    /\ tok' = t
    /\ origin' = "tamper"
    /\ UNCHANGED <<now, call, out, outKey>>
    /\ UNCHANGED gatewayVars

\* The token with byte k of its ciphertext, the bytes after the IV, changed
\* by delta.
ByteChanged(token, k, delta) ==
    LET w == WireOf(token)
    IN TokenOfWire([w EXCEPT ![BlockSize + k] = (@ + delta) % 256])

\* What a single byte is changed by.
ByteDeltas == {1, 85, 171}

ChangeByte(k, delta) ==
    /\ origin = "encrypt"
    /\ out = NoOutcome
    /\ tok' = ByteChanged(tok, k, delta)
    /\ origin' = "changed"
    /\ UNCHANGED <<now, call, out, outKey>>
    /\ UNCHANGED gatewayVars

\* Plaintexts that are no timestamp_*_ttl_*_text: "hi", "0_*_1", "x_*_1_*_a",
\* "0_*_y_*_a", "0_*_1_*_a_*_b", and a byte that is no UTF-8.
BadPlaintexts ==
    {<<104, 105>>, <<48, 95, 42, 95, 49>>, <<120, 95, 42, 95, 49, 95, 42, 95, 97>>, <<48, 95, 42, 95, 121, 95, 42, 95, 97>>, <<48, 95, 42, 95, 49, 95, 42, 95, 97, 95, 42, 95, 98>>, <<255>>}

\* A token made with the key from bytes that encrypt would not write.
Forge(plain, key, iv) ==
    /\ origin = "none"
    /\ tok' = TokenOfWire(iv \o cbc_encrypt(encrypt_key(key), iv, pad(plain, BlockSize)))
    /\ call' = [NoCall EXCEPT !.key = key, !.t0 = now, !.iv = iv]
    /\ origin' = "forge"
    /\ UNCHANGED <<now, out, outKey>>
    /\ UNCHANGED gatewayVars

\* Strings that are no token: "", "%zz", "%FF", "A", "AAA"
GarbageTokens == {<<>>, <<37, 122, 122>>, <<37, 70, 70>>, <<65>>, <<65, 65, 65>>}

Garbage(g) ==
    /\ origin = "none"
    /\ tok' = g
    /\ origin' = "garbage"
    /\ UNCHANGED <<now, call, out, outKey>>
    /\ UNCHANGED gatewayVars

\* The instants a token of the codec specifications is issued at.
IssueClock == ClockAround({0}) \cup {MsPerSecond}

\* encrypt at some instant, decrypt with the same key at that or a later one.
CodecNext ==
    \/ \E t \in CodecClock : Tick(t)
    \/ /\ now \in IssueClock
       /\ \E text \in CodecTexts, key \in CodecKeys, ttl \in CodecTTLs, iv \in IVs :
             Encrypt(text, key, ttl, iv)
    \/ Decrypt(call.key)

CodecSpec == CodecInit /\ [][CodecNext]_vars

\* Tokens as a client may send them: issued, tampered with, forged, garbage;
\* decrypted with the key or with another one.
TamperNext ==
    \/ \E t \in CodecClock : Tick(t)
    \/ /\ now \in IssueClock
       /\ \E text \in {<<104, 105>>, <<104, 116, 116, 112, 115, 58, 47, 47, 101, 120, 47, 97>>}, iv \in IVs : Encrypt(text, ENCRYPTION_KEY, 1, iv)
    \/ \E key \in CodecKeys : Decrypt(key)
    \/ \E t \in Tampered(tok) : Tamper(t)
    \/ \E plain \in BadPlaintexts, iv \in IVs : Forge(plain, ENCRYPTION_KEY, iv)
    \/ \E g \in GarbageTokens : Garbage(g)

TamperSpec == CodecInit /\ [][TamperNext]_vars

\* A token as issued, or with one byte of its ciphertext changed, decrypted
\* with its key.
ChangeNext ==
    \/ \E t \in CodecClock : Tick(t)
    \/ /\ now \in IssueClock
       /\ \E text \in {<<104, 105>>, <<104, 116, 116, 112, 115, 58, 47, 47, 101, 120, 47, 97>>}, iv \in IVs : Encrypt(text, ENCRYPTION_KEY, 1, iv)
    \/ \E k \in 1..(Len(WireOf(tok)) - BlockSize), delta \in ByteDeltas : ChangeByte(k, delta)
    \/ Decrypt(call.key)

ChangeSpec == CodecInit /\ [][ChangeNext]_vars

\* A raw key of n bytes: "bcdef..."
KeyOfLength(n) == [i \in 1..n |-> 97 + (i % 26)]

\* Raw keys of every length 1..MaxKeyLen; payloads "hi" and "https://ex/a".
KeyNext ==
    \/ \E t \in ClockAround({0}) : Tick(t)
    \/ \E n \in 1..MaxKeyLen, text \in {<<104, 105>>, <<104, 116, 116, 112, 115, 58, 47, 47, 101, 120, 47, 97>>}, iv \in IVs :
          Encrypt(text, KeyOfLength(n), 1, iv)
    \/ Decrypt(call.key)

KeySpec == CodecInit /\ [][KeyNext]_vars

\* ========================================================= the gateway
\* The largest number of body chunks an origin answers with.
MaxChunks == 1

\* The instants the gateway's clock is read at: around the issue of a link and
\* around the end of its 360 seconds.
GatewayClock == ClockAround({0, DefaultExpiry})

\* "", "https://ex/a"
LinkUrls == {JsonStr(<<>>), JsonStr(<<104, 116, 116, 112, 115, 58, 47, 47, 101, 120, 47, 97>>)}

\* "a", "a_*_b", "", "e-acute"
LinkAuthors == {JsonStr(<<97>>), JsonStr(<<97, 95, 42, 95, 98>>), JsonStr(<<>>), JsonStr(<<233>>)}

\* "video", "mp3", "image", "subtitle"
LinkTypes == {JsonStr(<<118, 105, 100, 101, 111>>), JsonStr(<<109, 112, 51>>), JsonStr(<<105, 109, 97, 103, 101>>), JsonStr(<<115, 117, 98, 116, 105, 116, 108, 101>>)}

\* Payloads the issuer does not write, encrypted with the key all the same:
\* {"url": "u", "type": "video"}, {"url": "u", "author": null, "type": "video"},
\* a bare URL (as the slideshow link of line 268 carries), and 7.
CraftedPayloads ==
    {<<123, 34, 117, 114, 108, 34, 58, 32, 34, 117, 34, 44, 32, 34, 116, 121, 112, 101, 34, 58, 32, 34, 118, 105, 100, 101, 111, 34, 125>>,
     <<123, 34, 117, 114, 108, 34, 58, 32, 34, 117, 34, 44, 32, 34, 97, 117, 116, 104, 111, 114, 34, 58, 32, 110, 117, 108, 108, 44, 32, 34, 116, 121, 112, 101, 34, 58, 32, 34, 118, 105, 100, 101, 111, 34, 125>>,
     <<104, 116, 116, 112, 115, 58, 47, 47, 101, 120, 47, 97>>,
     <<55>>}

\* The status codes the origin answers with.
OriginStatuses == {200, 404, 503}

\* A folder a slideshow request left in the workspace, tracked since time 0.
OneFolder == <<116, 101, 109, 112, 47, 49, 95, 120>> :> 0

\* The workspace is empty after a start, or holds what earlier requests left.
Init ==
    /\ now = 0
    /\ tok = <<>>
    /\ call = NoCall
    /\ origin = "none"
    /\ out = NoOutcome
    /\ outKey = <<>>
    /\ link = NoLink
    /\ req = [r \in AllReqs |-> IdleReq]
    /\ \E w \in {NoFolders, OneFolder} : file_timestamps = w /\ temp_dir = w
    /\ files = NoFiles
    /\ job = [j \in AllJobs |-> IdleJob]
    /\ cleanup = AtStartup
    /\ tiktok = NoTiktok

\* What a client takes from a link as the value of data: all after the "=".
link_token(l) ==
    LET eq == {i \in 1..Len(l) : l[i] = 61}
    IN IF eq = {} THEN <<>> ELSE Drop(l, CHOOSE i \in eq : \A k \in eq : i <= k)

\* link = generate_encrypted_download_link(url, author, type, ENCRYPTION_KEY, BASE_URL)
IssueLink(url, author_nickname, media_type, iv) ==
    /\ origin = "none"
    /\ \E l \in {generate_encrypted_download_link(url, author_nickname, media_type,
                    ENCRYPTION_KEY, BASE_URL, DefaultExpiry, now, iv)} :
          /\ link' = [result |-> l, url |-> url, author |-> author_nickname, type |-> media_type]
          /\ tok' = IF l = <<>> THEN <<>> ELSE link_token(l[1])
          /\ origin' = IF l = <<>> THEN "nolink" ELSE "link"
    /\ call' = [text |-> json_dumps(link_payload(url, author_nickname, media_type)),
                key |-> ENCRYPTION_KEY, ttl |-> DefaultExpiry, t0 |-> now, iv |-> iv]
    /\ UNCHANGED <<now, out, outKey, req, file_timestamps, temp_dir, files, job, cleanup, tiktok>>

\* GET /download?data=raw arrives and download_endpoint runs to its return or
\* its exception; an exception is answered with its status code and detail.
Receive(r, raw, gzip) ==
    /\ req[r].pc = "idle"
    /\ \E data \in {query_param(raw)} :
       \E result \in {download_endpoint(data, now)} :
          req' = [req EXCEPT ![r] =
                    IF result.kind = "raise"
                    THEN [IdleReq EXCEPT !.pc = "failed", !.data = data, !.at = now, !.gzip = gzip,
                                         !.result = result, !.status = result.status_code,
                                         !.detail = result.msg, !.closed = "complete"]
                    ELSE [IdleReq EXCEPT !.pc = "respond", !.data = data, !.at = now, !.gzip = gzip,
                                         !.result = result]]

\* A handler that notes the request in file_timestamps.
TrackedRequest(r, raw, gzip) ==
    /\ Receive(r, raw, gzip)
    /\ file_timestamps' = (raw :> now) @@ file_timestamps
    /\ UNCHANGED <<now, tok, call, origin, out, outKey, link, temp_dir, files, job, cleanup, tiktok>>

DownloadRequest(r, raw, gzip) ==
    /\ Receive(r, raw, gzip)
    /\ UNCHANGED <<now, tok, call, origin, out, outKey, link, file_timestamps, temp_dir, files, job, cleanup, tiktok>>

\* The StreamingResponse sends the status line and the headers. The
\* GZipMiddleware (line 57) holds them back until the first body message when
\* the client accepts gzip.
SendStart(r) ==
    /\ req[r].pc = "respond"
    /\ req' = [req EXCEPT ![r].pc = "stream",
                          ![r].status = IF req[r].gzip THEN 0 ELSE 200]
    /\ UNCHANGED <<now, tok, call, origin, out, outKey, link, file_timestamps, temp_dir, files, job, cleanup, tiktok>>

\* An exception leaves the body generator. The response has started, so no
\* handler answers it: with the start already on the wire the connection is
\* cut; with the start held back the server answers 500.
body_failure(q) ==
    IF q.status = 0
    THEN [q EXCEPT !.pc = "failed", !.status = 500, !.detail = <<"Internal Server Error">>,
                   !.closed = "complete"]
    ELSE [q EXCEPT !.pc = "failed", !.closed = "aborted"]

\* stream_file begins (lines 398-402): the outbound request is opened and the
\* origin answers with `status`.
OpenOrigin(r, status) ==
    /\ req[r].pc = "stream"
    /\ LET q == [req[r] EXCEPT !.fetched = <<req[r].result.value.url>>, !.origin_status = status]
       IN req' = [req EXCEPT ![r] = IF status # 200 THEN body_failure(q)
                                    ELSE [q EXCEPT !.pc = "relay"]]
    /\ UNCHANGED <<now, tok, call, origin, out, outKey, link, file_timestamps, temp_dir, files, job, cleanup, tiktok>>

\* Lines 404-405: a chunk of the origin's body is passed on.
RelayChunk(r) ==
    /\ req[r].pc = "relay"
    /\ req[r].chunks < MaxChunks
    /\ req' = [req EXCEPT ![r].chunks = @ + 1, ![r].status = 200]
    /\ UNCHANGED <<now, tok, call, origin, out, outKey, link, file_timestamps, temp_dir, files, job, cleanup, tiktok>>

\* The origin's body breaks off: aiter_bytes raises.
OriginBreaks(r) ==
    /\ req[r].pc = "relay"
    /\ req' = [req EXCEPT ![r] = body_failure(req[r])]
    /\ UNCHANGED <<now, tok, call, origin, out, outKey, link, file_timestamps, temp_dir, files, job, cleanup, tiktok>>

\* The origin's body ends and the response is completed.
Complete(r) ==
    /\ req[r].pc = "relay"
    /\ req' = [req EXCEPT ![r].pc = "done", ![r].status = 200, ![r].closed = "complete"]
    /\ UNCHANGED <<now, tok, call, origin, out, outKey, link, file_timestamps, temp_dir, files, job, cleanup, tiktok>>

\* "AAA": no token
NoToken == <<65, 65, 65>>

\* One /download request at a time: links of every descriptor, crafted
\* tokens, requests with the token, without one, or with garbage.
Next ==
    \/ \E t \in GatewayClock : Tick(t)
    \/ /\ now \in ClockAround({0})
       /\ \E url \in LinkUrls, author \in LinkAuthors, type \in LinkTypes :
             IssueLink(url, author, type, IVOf(7))
    \/ /\ now \in ClockAround({0})
       /\ \E text \in CraftedPayloads : Encrypt(text, ENCRYPTION_KEY, DefaultExpiry, IVOf(7))
    \/ \E raw \in {<<>>, tok, NoToken}, gzip \in BOOLEAN : DownloadRequest("r1", raw, gzip)
    \/ SendStart("r1")
    \/ \E status \in OriginStatuses : OpenOrigin("r1", status)
    \/ RelayChunk("r1")
    \/ OriginBreaks("r1")
    \/ Complete("r1")

Spec == Init /\ [][Next]_vars

\* Two /download requests with the token of one link, in any interleaving,
\* from clients that take the body as it is.
ReplayNext ==
    \/ \E t \in GatewayClock : Tick(t)
    \/ /\ now \in ClockAround({0})
       /\ \E author \in {JsonStr(<<97>>), JsonStr(<<97, 95, 42, 95, 98>>)} :
             IssueLink(JsonStr(<<104, 116, 116, 112, 115, 58, 47, 47, 101, 120, 47, 97>>), author, JsonStr(<<118, 105, 100, 101, 111>>), IVOf(7))
    \/ \E r \in AllReqs :
          \/ origin = "link" /\ DownloadRequest(r, tok, FALSE)
          \/ SendStart(r)
          \/ \E status \in {200, 404} : OpenOrigin(r, status)
          \/ RelayChunk(r)
          \/ Complete(r)

ReplaySpec == Init /\ [][ReplayNext]_vars

\* ======================================================= token codec claims
\* The decrypt call of this instant was given the token of the encrypt call,
\* untouched, and the key of that call.
IntactDecrypt ==
    /\ origin = "encrypt"
    /\ out # NoOutcome
    /\ outKey = call.key

\* The payload holds no "_*_".
DelimiterFree(text) == Len(split(text, Delim)) = 1

\* C1: a token produced by encrypt at t0 with ttl seconds decrypts, with the
\* same key, at every instant t0 <= t < t0 + ttl*1000 and fails at every
\* instant t >= t0 + ttl*1000: the window is half-open. Stated for the
\* payloads that hold no delimiter, so that only the window is in question.
TokenValidityWindow ==
    (IntactDecrypt /\ DelimiterFree(call.text)) =>
        IF now < call.t0 + call.ttl * 1000
        THEN out = Return(call.text)
        ELSE out.kind = "raise"

\* C2: decrypt(encrypt(payload, key, ttl), key), evaluated at the instant of
\* the encrypt, returns exactly payload, for every payload, '_' and '*'
\* included.
RoundTrip ==
    (IntactDecrypt /\ now = call.t0) => out = Return(call.text)

\* C3: decrypting an intact token after its TTL has elapsed fails with an
\* outcome a caller can tell apart from the one a malformed token produces:
\* never the decode-classified "Decryption failed" ValueError.
ExpiryClassifiedApart ==
    (IntactDecrypt /\ DelimiterFree(call.text) /\ now > call.t0 + call.ttl * 1000) =>
        /\ out.kind = "raise"
        /\ out.msg[1] # "Decryption failed: "

\* C4: decrypt is total over its failure modes: whatever the token, it
\* returns a payload or raises ValueError; no other exception type escapes.
DecryptTotal ==
    out # NoOutcome =>
        \/ out.kind = "return"
        \/ out.kind = "raise" /\ out.type = "ValueError"

\* A token cut short fails in the base64 decoder, whose error is no ValueError
\* of the codec, and decrypt reports it as one.
DecryptTotalWitness ==
    /\ origin = "tamper"
    /\ out.kind = "raise"
    /\ out.type = "ValueError"
    /\ decrypt_try(tok, outKey, now).type = "binascii.Error"

\* C10: for a raw key of every length 1..MaxKeyLen the key given to the
\* cipher has 16, 24 or 32 bytes, encrypt and decrypt derive the same cipher
\* key, and the round trip holds with the raw key.
KeyNormalisation ==
    origin = "encrypt" =>
        /\ Len(encrypt_key(call.key)) \in {16, 24, 32}
        /\ Len(decrypt_key(call.key)) \in {16, 24, 32}
        /\ encrypt_key(call.key) = decrypt_key(call.key)
        /\ IntactDecrypt => out = Return(call.text)

\* The round trip with a raw key of 40 bytes, cut to 32 by the normalisation.
KeyNormalisationWitness ==
    /\ IntactDecrypt
    /\ Len(call.key) = 40
    /\ Len(decrypt_key(call.key)) = 32
    /\ out = Return(call.text)

\* ========================================================= gateway claims
NoPayload == [decoded |-> FALSE, url |-> None, author |-> None, type |-> None]

\* The fields the handler finds in the token of request q: whether it decoded
\* to an object, and the object's url, author and type.
PayloadOf(q) ==
    IF q.data = <<>> THEN NoPayload
    ELSE Bind(decrypt(q.data, ENCRYPTION_KEY, q.at),
              LAMBDA d :
                 IF d.kind # "return" THEN NoPayload
                 ELSE Bind(json_loads(d.value),
                           LAMBDA j :
                              IF j.kind # "return" \/ j.value.t # "dict" THEN NoPayload
                              ELSE [decoded |-> TRUE,
                                    url |-> dict_get(j.value, <<117, 114, 108>>),
                                    author |-> dict_get(j.value, <<97, 117, 116, 104, 111, 114>>),
                                    type |-> dict_get(j.value, <<116, 121, 112, 101>>)]))

AllPresent(p) == Truthy(p.url) /\ Truthy(p.author) /\ Truthy(p.type)

InLookup(p) == p.type.t = "str" /\ p.type.s \in DOMAIN content_type_map

\* C5: the outbound request to the resource url is opened only after the
\* token was non-empty, decrypt succeeded, url, author and type were all
\* present and non-empty, and type was a key of the content-type lookup; a
\* request failing one of these makes no outbound request and is sent no
\* asset byte.
ResolverCheckOrder ==
    \A r \in AllReqs :
        \E q \in {req[r]} :
        \E p \in {PayloadOf(q)} :
        \E passed \in {q.data # <<>> /\ p.decoded /\ AllPresent(p) /\ InLookup(p)} :
           /\ (q.fetched # <<>> \/ q.origin_status # 0 \/ q.chunks > 0) =>
                  passed /\ q.fetched = <<p.url.s>>
           /\ (q.pc # "idle" /\ ~passed) =>
                  q.pc = "failed" /\ q.fetched = <<>> /\ q.chunks = 0

\* A request with the token of an issued link was checked, the resource url
\* was fetched and a chunk of it relayed.
ResolverCheckOrderWitness ==
    /\ origin = "link"
    /\ req["r1"].data = query_param(tok)
    /\ req["r1"].fetched = <<link.url.s>>
    /\ req["r1"].chunks > 0

\* C6: each terminal failure is reported under the category of the check
\* that failed, not as an internal error: a payload missing url, author or
\* type is answered as the missing-field check raises it (400, "Invalid
\* decrypted data ..."), a type outside the lookup as the lookup check raises
\* it (400, "Invalid file type specified").
FailureCategories ==
    \A r \in AllReqs :
        \E q \in {req[r]} :
        \E p \in {IF q.pc = "failed" THEN PayloadOf(q) ELSE NoPayload} :
           (q.pc = "failed" /\ p.decoded) =>
              /\ ~AllPresent(p) =>
                    /\ q.status = 400
                    /\ q.detail = <<"Invalid decrypted data: missing url, author, or type">>
              /\ (AllPresent(p) /\ ~InLookup(p)) =>
                    /\ q.status = 400
                    /\ q.detail = <<"Invalid file type specified">>

\* C7: when the origin answers the outbound request with a status other than
\* 200, nothing of a success response has been sent: the client receives an
\* error response and never a success status, header or chunk.
OriginFailurePrecedesResponse ==
    \A r \in AllReqs :
        req[r].origin_status \notin {0, 200} =>
            /\ req[r].status >= 400
            /\ req[r].closed = "complete"
            /\ req[r].chunks = 0

\* C8: for a non-empty resource url the issuer returns base_url +
\* "/download?data=" + token; the token, decrypted with the same key within
\* its 360 seconds, parses to exactly {url, author, type}, and is refused
\* after them.
IssuedLinkDecodes ==
    (origin = "link" /\ now < call.t0 + 360 * 1000) =>
        /\ link.result = <<BASE_URL \o <<47, 100, 111, 119, 110, 108, 111, 97, 100, 63, 100, 97, 116, 97, 61>> \o tok>>
        /\ decrypt(tok, ENCRYPTION_KEY, call.t0 + 360 * 1000 + 1).kind = "raise"
        /\ LET d == decrypt(tok, ENCRYPTION_KEY, now)
           IN /\ d.kind = "return"
              /\ json_loads(d.value) =
                    Return([t |-> "dict", items |-> link_payload(link.url, link.author, link.type)])

\* Request r presented `data`, the token of the issued link, inside its window.
InWindow(r, data) ==
    /\ origin = "link"
    /\ req[r].pc # "idle"
    /\ req[r].data = data
    /\ req[r].at < call.t0 + call.ttl * 1000

\* Every resolution inside the window has the outcome of every other, and for
\* a payload that round-trips it passes with the url the link was issued for.
ReplayAccepted ==
    \E data \in {query_param(tok)} :
    \A r \in AllReqs :
        InWindow(r, data) =>
            /\ \A r2 \in AllReqs : InWindow(r2, data) => req[r2].result = req[r].result
            /\ DelimiterFree(call.text) =>
                  /\ req[r].result.kind = "return"
                  /\ req[r].result.value.url = link.url.s

\* C9: any number of resolutions of one token, in any interleaving, inside
\* its window pass decoding with the same payload, and every step of the
\* /download flow leaves file_timestamps and the temp directory unchanged.
ReplayStateless ==
    /\ []ReplayAccepted
    /\ [][(req' # req) => UNCHANGED workspaceVars]_vars

\* Two resolutions of one token at different instants of its window, both
\* passed, one already complete, the workspace still holding its folder.
ReplayStatelessWitness ==
    /\ InWindow("r1", query_param(tok)) /\ InWindow("r2", query_param(tok))
    /\ req["r1"].at # req["r2"].at
    /\ req["r1"].pc = "done"
    /\ req["r2"].result.kind = "return"
    /\ req["r1"].result = req["r2"].result
    /\ file_timestamps = OneFolder
    /\ temp_dir = OneFolder

\* =====================================================================
\* The temp folders: cleanup_temp_files, its scheduler, /download-slideshow
\* =====================================================================

\* timedelta(hours=1), the age beyond which a folder is removed
RetentionHours == 1

\* asyncio.sleep(30 * 60): the pause between two passes, in seconds
CleanupSleep == 1800

Retention == RetentionHours * 3600 * MsPerSecond

CleanupInterval == CleanupSleep * MsPerSecond

\* TEMP_DIR, as a path relative to the working directory: "temp"
TEMP_DIR == <<116, 101, 109, 112>>

\* os.path.join(a, b)
path_join(a, b) == a \o <<47>> \o b

\* path lies inside folder
Under(folder, path) ==
    /\ Len(path) > Len(folder)
    /\ SubSeq(path, 1, Len(folder) + 1) = folder \o <<47>>

\* a function without the arguments in gone
Without(f, gone) == [x \in (DOMAIN f) \ gone |-> f[x]]

\* shutil.rmtree(folder): the files of a folder go with it
rmtree_files(fs, gone) == Without(fs, {p \in DOMAIN fs : \E d \in gone : Under(d, p)})

\* A pass that removes a folder as soon as it is one hour old.
is_old_or_due(current_time, timestamp) == current_time - timestamp >= Retention

\* current_time - timestamp > timedelta(hours=1)
is_old(current_time, timestamp) == current_time - timestamp > Retention

\* The first loop of cleanup_temp_files: the timestamp of a folder is its
\* entry in file_timestamps, and the mtime of the folder where it has none;
\* the mtime is then kept as its entry.
cleanup_timestamps(tracked, dirs) ==
    [p \in (DOMAIN tracked) \cup (DOMAIN dirs) |->
        IF p \in DOMAIN tracked THEN tracked[p] ELSE dirs[p]]

\* expired_items: the folders under TEMP_DIR that are old
expired_items(tracked, dirs, current_time) ==
    {p \in DOMAIN dirs : is_old(current_time, cleanup_timestamps(tracked, dirs)[p])}

\* A pass that gives up at the first removal that fails.
cleanup_gives_up(tracked, dirs, fs, current_time, failing) ==
    LET expired == expired_items(tracked, dirs, current_time)
        removed == IF expired \cap failing = {} THEN expired ELSE {}
    IN [file_timestamps |-> Without(cleanup_timestamps(tracked, dirs), removed),
        temp_dir |-> Without(dirs, removed),
        files |-> rmtree_files(fs, removed),
        expired |-> expired,
        removed |-> removed,
        failed |-> expired \cap failing]

\* cleanup_temp_files at current_time, where rmtree raises for the folders in
\* failing: what it leaves of file_timestamps, of the folders and of the files.
cleanup_temp_files(tracked, dirs, fs, current_time, failing) ==
    LET expired == expired_items(tracked, dirs, current_time)
        removed == expired \ failing
    IN [file_timestamps |-> Without(cleanup_timestamps(tracked, dirs), removed),
        temp_dir |-> Without(dirs, removed),
        files |-> rmtree_files(fs, removed),
        expired |-> expired,
        removed |-> removed,
        failed |-> expired \cap failing]

\* --------------------------------------------- the scheduler and the clock
\* The instants of the folder specifications: every quarter of an hour up to
\* MaxQuarters, and one millisecond after each.
MaxQuarters == 6

QuarterHour == 900 * MsPerSecond

WorkspaceClock == {q * QuarterHour + d : q \in 0..MaxQuarters, d \in {0, 1}}

otherVars == <<tok, call, origin, out, outKey, link, req, tiktok>>

\* asyncio.sleep ends when it is due: the clock passes cleanup.due by no more
\* than a millisecond before the pass runs.
Elapse(t) ==
    /\ t <= cleanup.due + 1
    /\ Tick(t)

\* One turn of the loop of run_cleanup_scheduler: cleanup_temp_files, which
\* has no await and so runs in one piece, then the sleep is set.
RunCleanup(failing) ==
    /\ now >= cleanup.due
    /\ \E c \in {cleanup_temp_files(file_timestamps, temp_dir, files, now, failing)} :
          /\ file_timestamps' = c.file_timestamps
          /\ temp_dir' = c.temp_dir
          /\ files' = c.files
          /\ cleanup' = [due |-> now + CleanupInterval,
                         last |-> [at |-> now, expired |-> c.expired, removed |-> c.removed, failed |-> c.failed]]
    /\ UNCHANGED <<now, job>>
    /\ UNCHANGED otherVars

\* ------------------------------------------------- /download-slideshow
\* The number of images of the photo post of the specifications.
MaxImages == 2

\* What the hybrid API may answer with: a photo post of MaxImages images
\* "u1", "u2", .. and music "m" (aweme_id "1", uid "x"); a photo post without
\* music (aweme_id "2", uid "y"); a video post.
ImagePost ==
    [type |-> "image", aweme_id |-> <<49>>, uid |-> <<120>>,
     image_urls |-> [i \in 1..MaxImages |-> <<117, 48 + i>>], audio_url |-> <<109>>]

SilentPost ==
    [type |-> "image", aweme_id |-> <<50>>, uid |-> <<121>>,
     image_urls |-> << <<117, 57>> >>, audio_url |-> <<>>]

VideoPost ==
    [type |-> "video", aweme_id |-> <<51>>, uid |-> <<122>>,
     image_urls |-> <<>>, audio_url |-> <<109>>]

Posts == {ImagePost, SilentPost, VideoPost}

\* The encrypted url parameter: the address of a post, good for four hours.
SlideToken == encrypt(<<104, 116, 116, 112, 115, 58, 47, 47, 116, 47, 112>>, ENCRYPTION_KEY, 14400, 0, IVOf(7))

\* folder_name = f"{data['aweme_id']}_{data['author']['uid']}"
folder_name(data) == data.aweme_id \o <<95>> \o data.uid

\* os.path.join(temp_dir, f"image_{i}.jpg"); enumerate counts from 0
image_path(folder, i) == path_join(folder, <<105, 109, 97, 103, 101, 95>> \o str(i) \o <<46, 106, 112, 103>>)

\* os.path.join(temp_dir, "audio.mp3")
audio_path(folder) == path_join(folder, <<97, 117, 100, 105, 111, 46, 109, 112, 51>>)

\* os.path.join(temp_dir, "slideshow.mp4")
output_path(folder) == path_join(folder, <<115, 108, 105, 100, 101, 115, 104, 111, 119, 46, 109, 112, 52>>)

\* What a file holds: the address it was downloaded from, or the inputs the
\* slideshow was made of, in their order.
Downloaded(url) == [from |-> url, inputs |-> <<>>]

Slideshow(inputs) == [from |-> <<>>, inputs |-> inputs]

\* An entry that is written once and kept.
track_once(tracked, folder, t) == IF folder \in DOMAIN tracked THEN tracked ELSE (folder :> t) @@ tracked

\* file_timestamps[temp_dir] = datetime.now()
track(tracked, folder, t) == (folder :> t) @@ tracked

\* A makedirs that makes the folder anew where there is one.
makedirs_anew(dirs, path, t) == (path :> t) @@ dirs

\* os.makedirs(path, exist_ok=True)
makedirs(dirs, path, t) == IF path \in DOMAIN dirs THEN dirs ELSE (path :> t) @@ dirs

\* open(path, 'wb') and the writes: a new name in the folder moves its mtime
write_file(fs, path, content) == (path :> content) @@ fs

touch(dirs, folder, path, fs, t) ==
    IF path \in DOMAIN fs THEN dirs ELSE (folder :> t) @@ dirs

\* A command that takes the audio first and the images after it.
create_slideshow_audio_first(image_paths, audio, output) ==
    [inputs |-> <<audio>> \o image_paths,
     concat |-> [i \in 1..Len(image_paths) |-> i],
     audio_input |-> 0,
     output |-> output]

\* The command of create_slideshow: an -i for every image in the order of
\* image_paths, then the audio; [v0][v1]..concat=n=N; the audio is input N.
create_slideshow(image_paths, audio, output) ==
    [inputs |-> image_paths \o <<audio>>,
     concat |-> [i \in 1..Len(image_paths) |-> i - 1],
     audio_input |-> Len(image_paths),
     output |-> output]

\* The handler ends with an HTTPException: no response was started before.
Failed(q, status_code, cause) == [q EXCEPT !.pc = "failed", !.status = status_code, !.cause = cause]

\* A request arrives: from the entry of download_slideshow_endpoint to the
\* await of the hybrid API.  A url that does not decrypt is caught by the
\* except clause of the handler.
SlideshowRequest(j, url) ==
    /\ job[j].pc = "idle"
    /\ \E r \in {IF url = <<>> THEN Raise("HTTPException", <<>>) ELSE decrypt(url, ENCRYPTION_KEY, now)} :
          job' = [job EXCEPT ![j] =
                     IF url = <<>> THEN Failed(@, 400, "URL parameter is required")
                     ELSE IF r.kind = "raise" THEN Failed([@ EXCEPT !.url = url], 500, "Error creating slideshow")
                     ELSE [@ EXCEPT !.pc = "fetch", !.url = url, !.decrypted_url = r.value]]
    /\ UNCHANGED <<now, file_timestamps, temp_dir, files, cleanup>>
    /\ UNCHANGED otherVars

\* The hybrid API answers: from there to the await of asyncio.gather.  The
\* folder is made and its entry in file_timestamps written in this one piece.
HybridResponds(j, status_code, data) ==
    /\ job[j].pc = "fetch"
    /\ IF status_code # 200 \/ data.type # "image"
       THEN /\ job' = [job EXCEPT ![j] = Failed(@, 500, "Error creating slideshow")]
            /\ UNCHANGED <<file_timestamps, temp_dir>>
       ELSE \E folder \in {path_join(TEMP_DIR, folder_name(data))} :
              /\ temp_dir' = makedirs(temp_dir, folder, now)
              /\ file_timestamps' = track(file_timestamps, folder, now)
              /\ job' = [job EXCEPT ![j] =
                            [@ EXCEPT !.pc = "images", !.post = data, !.temp_dir = folder, !.at = now,
                                      !.image_paths = [i \in 1..Len(data.image_urls) |-> image_path(folder, i - 1)],
                                      !.downloads = [i \in 1..Len(data.image_urls) |-> "pending"]]]
    /\ UNCHANGED <<now, files, cleanup>>
    /\ UNCHANGED otherVars

\* download_file(url, output_path) on the answer of the remote host: another
\* status than 200 raises; with 200 the file is opened and written.
download_file(dirs, fs, folder, url, path, status_code, t) ==
    IF status_code # 200 \/ folder \notin DOMAIN dirs
    THEN [ok |-> FALSE, temp_dir |-> dirs, files |-> fs]
    ELSE [ok |-> TRUE, temp_dir |-> touch(dirs, folder, path, fs, t), files |-> write_file(fs, path, Downloaded(url))]

\* One of the download tasks of the gather ends.
ImageDownloaded(j, i, status_code) ==
    /\ i \in DOMAIN job[j].downloads
    /\ job[j].downloads[i] = "pending"
    /\ \E d \in {download_file(temp_dir, files, job[j].temp_dir, job[j].post.image_urls[i], job[j].image_paths[i], status_code, now)} :
          /\ temp_dir' = d.temp_dir
          /\ files' = d.files
          /\ job' = [job EXCEPT ![j].downloads[i] = IF d.ok THEN "ok" ELSE "failed",
                                ![j].arrived = Append(@, i)]
    /\ UNCHANGED <<now, file_timestamps, cleanup>>
    /\ UNCHANGED otherVars

\* A gather that returns when no task is pending, whatever the tasks did.
gather_return_exceptions(downloads) ==
    IF \E i \in DOMAIN downloads : downloads[i] = "pending" THEN "pending" ELSE "return"

\* await asyncio.gather(*download_tasks): it returns when every task is done,
\* and raises as soon as one has raised; then the audio url is looked up.
gather(downloads) ==
    IF \E i \in DOMAIN downloads : downloads[i] = "failed" THEN "raise"
    ELSE IF \A i \in DOMAIN downloads : downloads[i] = "ok" THEN "return"
    ELSE "pending"

GatherReturns(j) ==
    /\ job[j].pc = "images"
    /\ \E g \in {gather(job[j].downloads)} :
          /\ g # "pending"
          /\ job' = [job EXCEPT ![j] =
                        IF g = "raise" THEN Failed(@, 500, "Error creating slideshow")
                        ELSE IF job[j].post.audio_url = <<>> THEN Failed(@, 500, "Error creating slideshow")
                        ELSE [@ EXCEPT !.pc = "audio", !.audio = "pending"]]
    /\ UNCHANGED <<now, file_timestamps, temp_dir, files, cleanup>>
    /\ UNCHANGED otherVars

\* The audio download ends; create_slideshow builds the command and hands it
\* to the executor.
AudioDownloaded(j, status_code) ==
    /\ job[j].pc = "audio"
    /\ \E d \in {download_file(temp_dir, files, job[j].temp_dir, job[j].post.audio_url, audio_path(job[j].temp_dir), status_code, now)} :
          /\ temp_dir' = d.temp_dir
          /\ files' = d.files
          /\ job' = [job EXCEPT ![j] =
                        IF ~d.ok THEN [Failed(@, 500, "Error creating slideshow") EXCEPT !.audio = "failed"]
                        ELSE [@ EXCEPT !.pc = "ffmpeg", !.audio = "ok",
                                       !.cmd = create_slideshow(job[j].image_paths, audio_path(job[j].temp_dir), output_path(job[j].temp_dir))]]
    /\ UNCHANGED <<now, file_timestamps, cleanup>>
    /\ UNCHANGED otherVars

\* ffmpeg opens the files of its command: it can go on only where it can read
\* every input and may write its output; without -y it does not overwrite a
\* file.
can_succeed(dirs, fs, folder, cmd) ==
    /\ folder \in DOMAIN dirs
    /\ \A i \in DOMAIN cmd.inputs : cmd.inputs[i] \in DOMAIN fs
    /\ cmd.output \notin DOMAIN fs

\* The ffmpeg process starts in the thread of the executor, beside the event
\* loop: it looks for its output and opens its inputs.
FfmpegStarts(j) ==
    /\ job[j].pc = "ffmpeg"
    /\ job' = [job EXCEPT ![j] =
                  [@ EXCEPT !.pc = "encoding",
                            !.reads = IF can_succeed(temp_dir, files, job[j].temp_dir, job[j].cmd)
                                      THEN [i \in DOMAIN job[j].cmd.inputs |-> files[job[j].cmd.inputs[i]]]
                                      ELSE <<>>]]
    /\ UNCHANGED <<now, file_timestamps, temp_dir, files, cleanup>>
    /\ UNCHANGED otherVars

\* _run_ffmpeg_process: a returncode other than 0 raises
run_ffmpeg_process(returncode) == IF returncode # 0 THEN "raise" ELSE "return"

\* The ffmpeg process ends, with 0 only if it could open its files; its
\* output is in the folder if the folder is still there.  With 0 the handler
\* schedules the removal of the folder and returns the FileResponse.
FfmpegExits(j, returncode) ==
    /\ job[j].pc = "encoding"
    /\ returncode = 0 => job[j].reads # <<>>
    /\ \E written \in {returncode = 0 /\ job[j].temp_dir \in DOMAIN temp_dir} :
          /\ files' = IF written THEN write_file(files, job[j].cmd.output, Slideshow(job[j].reads)) ELSE files
          /\ temp_dir' = IF written THEN touch(temp_dir, job[j].temp_dir, job[j].cmd.output, files, now) ELSE temp_dir
    /\ job' = [job EXCEPT ![j] =
                  IF run_ffmpeg_process(returncode) = "raise"
                  THEN [Failed(@, 500, "Error creating slideshow") EXCEPT !.returncode = returncode]
                  ELSE [@ EXCEPT !.pc = "respond", !.returncode = returncode]]
    /\ UNCHANGED <<now, file_timestamps, cleanup>>
    /\ UNCHANGED otherVars

\* FileResponse starts: it stats the file, sends the status line and opens
\* the file.  A file that is gone is a RuntimeError, a 500 to the client, and
\* the background task is not run.
SendFile(j) ==
    /\ job[j].pc = "respond"
    /\ job' = [job EXCEPT ![j] =
                  IF output_path(job[j].temp_dir) \in DOMAIN files
                  THEN [@ EXCEPT !.pc = "sending", !.status = 200, !.body = files[output_path(job[j].temp_dir)]]
                  ELSE Failed(@, 500, "File at path does not exist")]
    /\ UNCHANGED <<now, file_timestamps, temp_dir, files, cleanup>>
    /\ UNCHANGED otherVars

\* The last chunk of the file is sent.
FileSent(j) ==
    /\ job[j].pc = "sending"
    /\ job' = [job EXCEPT ![j].pc = "sent"]
    /\ UNCHANGED <<now, file_timestamps, temp_dir, files, cleanup>>
    /\ UNCHANGED otherVars

\* The background task: shutil.rmtree(temp_dir) if os.path.exists(temp_dir)
release(dirs, fs, folder) ==
    [temp_dir |-> Without(dirs, {folder}), files |-> rmtree_files(fs, {folder})]

RunBackground(j) ==
    /\ job[j].pc = "sent"
    /\ \E r \in {release(temp_dir, files, job[j].temp_dir)} :
          /\ temp_dir' = r.temp_dir
          /\ files' = r.files
    /\ job' = [job EXCEPT ![j].pc = "done"]
    /\ UNCHANGED <<now, file_timestamps, cleanup>>
    /\ UNCHANGED otherVars

\* The statuses a remote host answers a download with.
DownloadStatuses == {200, 404}

InFlight == {"images", "audio", "ffmpeg", "encoding", "respond", "sending"}

\* The folders a process finds under TEMP_DIR when it starts, none of them in
\* file_timestamps: none; temp/1_x, just written; temp/1_x and temp/9_z, the
\* latter written three quarters of an hour before.
Leftovers ==
    {NoFolders, OneFolder, (<<116, 101, 109, 112, 47, 57, 95, 122>> :> (0 - 3 * QuarterHour)) @@ OneFolder}

WorkspaceInit ==
    /\ now = 0
    /\ tok = <<>>
    /\ call = NoCall
    /\ origin = "none"
    /\ out = NoOutcome
    /\ outKey = <<>>
    /\ link = NoLink
    /\ req = [r \in AllReqs |-> IdleReq]
    /\ file_timestamps = NoFolders
    /\ temp_dir \in Leftovers
    /\ files = NoFiles
    /\ job = [j \in AllJobs |-> IdleJob]
    /\ cleanup = AtStartup
    /\ tiktok = NoTiktok

\* The steps of the request in slot j.
Handler(j) ==
    \/ \E url \in {<<>>, SlideToken, <<65>>} : SlideshowRequest(j, url)
    \/ \E status_code \in {200, 503}, data \in Posts : HybridResponds(j, status_code, data)
    \/ \E i \in 1..MaxImages, status_code \in DownloadStatuses : ImageDownloaded(j, i, status_code)
    \/ GatherReturns(j)
    \/ \E status_code \in DownloadStatuses : AudioDownloaded(j, status_code)
    \/ FfmpegStarts(j)
    \/ \E returncode \in {0, 1} : FfmpegExits(j, returncode)
    \/ SendFile(j)
    \/ FileSent(j)
    \/ RunBackground(j)

\* The scheduler, the clock and one request.
SweepNext ==
    \/ \E t \in WorkspaceClock : Elapse(t)
    \/ \E failing \in SUBSET expired_items(file_timestamps, temp_dir, now) : RunCleanup(failing)
    \/ Handler("j1")

SweepSpec == WorkspaceInit /\ [][SweepNext]_vars

\* Two requests side by side, at instants around the start of the process;
\* the scheduler has not come round again.
SlideshowInit ==
    /\ now = 0
    /\ tok = <<>>
    /\ call = NoCall
    /\ origin = "none"
    /\ out = NoOutcome
    /\ outKey = <<>>
    /\ link = NoLink
    /\ req = [r \in AllReqs |-> IdleReq]
    /\ file_timestamps = NoFolders
    /\ temp_dir \in {NoFolders, OneFolder}
    /\ files = NoFiles
    /\ job = [j \in AllJobs |-> IdleJob]
    /\ cleanup = AtStartup
    /\ tiktok = NoTiktok

SlideshowNext ==
    \/ \E t \in ClockAround({0}) : Tick(t)
    \/ Handler("j1")
    \/ Handler("j2")

SlideshowSpec == SlideshowInit /\ [][SlideshowNext]_vars

\* ---------------------------------------------------------------- C11
\* The timestamp the next pass will judge a folder by, and its age.
TimestampOf(p) == IF p \in DOMAIN file_timestamps THEN file_timestamps[p] ELSE temp_dir[p]

Age(p) == now - TimestampOf(p)

\* C11 (retention bound): once the scheduler has run a pass, and when no
\* removal of its last pass failed, there is no folder under TEMP_DIR whose
\* timestamp (its entry in file_timestamps, or its mtime where it has none)
\* lies more than one hour in the past.
RetentionBound ==
    (cleanup.last.at >= 0 /\ cleanup.last.failed = {}) =>
        \A p \in DOMAIN temp_dir : Age(p) <= 3600 * MsPerSecond

\* ---------------------------------------------------------------- C12
\* A step of the scheduler, and one in which no removal failed.
PassStep == cleanup'.last.at # cleanup.last.at

CleanPassStep == PassStep /\ cleanup'.last.failed = {}

OlderThanAnHour == {p \in DOMAIN temp_dir : Age(p) > 60 * 60 * MsPerSecond}

\* C12 (sweep correctness): a pass at time T in which no removal fails removes
\* exactly the folders whose timestamp (entry in file_timestamps if there is
\* one, mtime otherwise) is more than 60 minutes before T, and the entries of
\* those folders; a younger folder keeps its mtime and its files, its entry
\* keeps its value, and where it had no entry it has its mtime as entry now.
SweepCorrectness ==
    [][CleanPassStep =>
        /\ DOMAIN temp_dir' = (DOMAIN temp_dir) \ OlderThanAnHour
        /\ cleanup'.last.removed = OlderThanAnHour
        /\ \A p \in OlderThanAnHour :
              /\ p \notin DOMAIN file_timestamps'
              /\ \A f \in DOMAIN files' : ~Under(p, f)
        /\ \A p \in (DOMAIN temp_dir) \ OlderThanAnHour :
              /\ temp_dir'[p] = temp_dir[p]
              /\ \A f \in DOMAIN files : Under(p, f) => (f \in DOMAIN files' /\ files'[f] = files[f])
              /\ p \in DOMAIN file_timestamps'
              /\ file_timestamps'[p] = TimestampOf(p)
        /\ \A p \in (DOMAIN file_timestamps) \ OlderThanAnHour :
              p \in DOMAIN file_timestamps' /\ file_timestamps'[p] = file_timestamps[p]
    ]_vars

\* A pass has removed a folder and its entry and left a younger one.
SweepCorrectnessWitness ==
    /\ cleanup.last.at = now
    /\ cleanup.last.failed = {}
    /\ cleanup.last.removed # {}
    /\ \E p \in DOMAIN temp_dir : p \in DOMAIN file_timestamps /\ Age(p) > 0

\* ---------------------------------------------------------------- C15
\* C15 (tamper sensitivity): decrypt, with the key of the token, of a token in
\* which one byte of the ciphertext was changed raises; it returns no payload,
\* and so none that differs from the payload encrypted.
TamperSensitivity ==
    (origin = "changed" /\ out # NoOutcome /\ outKey = call.key) =>
        /\ out.kind = "raise"
        /\ out # Return(call.text)

\* ---------------------------------------------------------------- C16
\* The step that makes the folder of a request: it ends at the await of gather.
AcquireStep(j) == job[j].pc = "fetch" /\ job'[j].pc = "images"

\* C16 (acquire versus sweep): the entry of file_timestamps is written in the
\* step that makes the folder, before the handler suspends; the entry is not
\* lost while the folder is less than an hour old; and a pass does not remove
\* a folder that a request made or reused less than one hour before the pass.
AcquireVersusSweep ==
    /\ [](\A j \in AllJobs :
             (job[j].at >= 0 /\ now - job[j].at < Retention) =>
                 /\ job[j].temp_dir \in DOMAIN file_timestamps
                 /\ file_timestamps[job[j].temp_dir] >= job[j].at)
    /\ [][\A j \in AllJobs :
             /\ AcquireStep(j) =>
                   /\ job'[j].temp_dir \in DOMAIN temp_dir'
                   /\ job'[j].temp_dir \in DOMAIN file_timestamps'
                   /\ file_timestamps'[job'[j].temp_dir] = now
             /\ (PassStep /\ job[j].at >= 0 /\ now - job[j].at < Retention) =>
                   job[j].temp_dir \notin cleanup'.last.removed
       ]_vars

\* A pass came upon a folder whose mtime is more than an hour old and which a
\* request had reused less than an hour before: the folder is still there.
AcquireVersusSweepWitness ==
    \E j \in AllJobs :
        /\ job[j].pc = "images"
        /\ cleanup.last.at > job[j].at
        /\ cleanup.last.at - job[j].at < Retention
        /\ job[j].temp_dir \in DOMAIN temp_dir
        /\ cleanup.last.at - temp_dir[job[j].temp_dir] > Retention
        /\ cleanup.last.removed # {}

\* ---------------------------------------------------------------- C13
\* Request k holds the folder of its post: it has made or reused it and its
\* background task has not removed it.
Holds(k) == job[k].at >= 0 /\ job[k].pc # "done" /\ job[k].temp_dir \in DOMAIN temp_dir

\* C13 (idempotent acquisition): when a request makes the folder for a post
\* whose folder another request holds, it gets the same path, no folder and no
\* entry of file_timestamps is added, the folder keeps its mtime and its
\* files, and the one entry of the folder gets the time of the second request.
IdempotentAcquisition ==
    [][\A j, k \in AllJobs :
          (j # k /\ AcquireStep(j) /\ Holds(k) /\ job'[j].post = job[k].post) =>
              /\ job'[j].temp_dir = job[k].temp_dir
              /\ DOMAIN temp_dir' = DOMAIN temp_dir
              /\ temp_dir' = temp_dir
              /\ files' = files
              /\ DOMAIN file_timestamps' = DOMAIN file_timestamps
              /\ file_timestamps' = [file_timestamps EXCEPT ![job[k].temp_dir] = now]
    ]_vars

\* Two requests for one post, the second later than the first: one folder,
\* one entry, with the time of the second.
IdempotentAcquisitionWitness ==
    /\ job["j1"].pc = "images"
    /\ job["j2"].pc = "images"
    /\ job["j1"].temp_dir = job["j2"].temp_dir
    /\ job["j2"].at > job["j1"].at
    /\ Cardinality(DOMAIN temp_dir) = 1
    /\ Cardinality(DOMAIN file_timestamps) = 1
    /\ file_timestamps[job["j1"].temp_dir] = job["j2"].at
    /\ temp_dir[job["j1"].temp_dir] = job["j1"].at

\* ---------------------------------------------------------------- C14
\* The step in which the background task of request j runs.
ReleaseStep(j) == job[j].pc = "sent" /\ job'[j].pc = "done"

\* C14 (post-response release): while the file of a request that succeeds is
\* being sent, and until its last chunk is out, the folder of the request and
\* the file are there; the background task runs after the last chunk only,
\* and after it the folder is not there.
PostResponseRelease ==
    /\ [](\A j \in AllJobs :
             job[j].pc = "sending" =>
                 /\ job[j].temp_dir \in DOMAIN temp_dir
                 /\ output_path(job[j].temp_dir) \in DOMAIN files)
    /\ [][\A j \in AllJobs :
             ReleaseStep(j) => job[j].temp_dir \notin DOMAIN temp_dir'
       ]_vars

\* ---------------------------------------------------------------- C17
\* C17 (no removal under a request in flight): the background task of one
\* request does not remove the folder, nor a file in it, of another request
\* that has made or reused the folder and has not ended.
ReleaseSparesInFlight ==
    [][\A j, k \in AllJobs :
          (j # k /\ ReleaseStep(j) /\ job[k].pc \in InFlight /\ job[k].temp_dir = job[j].temp_dir) =>
              /\ job[k].temp_dir \in DOMAIN temp_dir'
              /\ \A f \in DOMAIN files : Under(job[k].temp_dir, f) => f \in DOMAIN files'
    ]_vars

\* ---------------------------------------------------------------- C18
\* The command has been handed to ffmpeg.
Invoked(j) == job[j].cmd # <<>>

AnyStepFailed(j) ==
    \/ job[j].pc = "failed"
    \/ \E i \in DOMAIN job[j].downloads : job[j].downloads[i] = "failed"
    \/ job[j].audio = "failed"
    \/ job[j].returncode > 0

\* C18 (success requires every step): the audio download starts when every
\* image download has ended with 200, ffmpeg is invoked when the audio
\* download has ended with 200 too; a file is sent only after ffmpeg ended
\* with 0; and a request with a failed step sends no file and ends with an
\* error status.
SuccessRequiresEveryStep ==
    \A j \in AllJobs :
        /\ job[j].audio # "" => \A i \in DOMAIN job[j].downloads : job[j].downloads[i] = "ok"
        /\ Invoked(j) =>
              /\ Len(job[j].downloads) = Len(job[j].post.image_urls)
              /\ \A i \in DOMAIN job[j].downloads : job[j].downloads[i] = "ok"
              /\ job[j].audio = "ok"
        /\ (job[j].status = 200 \/ job[j].body # <<>>) => (Invoked(j) /\ job[j].returncode = 0)
        /\ AnyStepFailed(j) => (job[j].status # 200 /\ job[j].body = <<>>)
        /\ job[j].pc = "failed" => job[j].status \in {400, 500}

\* One request has sent its file, after ffmpeg ended with 0; the other one
\* ended with an error after ffmpeg ended with 1.
SuccessRequiresEveryStepWitness ==
    /\ job["j1"].pc = "done"
    /\ job["j1"].status = 200
    /\ job["j1"].returncode = 0
    /\ job["j2"].pc = "failed"
    /\ job["j2"].returncode = 1
    /\ job["j2"].status = 500

\* ---------------------------------------------------------------- C19
\* "temp/<aweme_id>_<uid>/image_<n>.jpg", for n < 10
NumberedPath(post, n) ==
    <<116, 101, 109, 112, 47>> \o post.aweme_id \o <<95>> \o post.uid
        \o <<47, 105, 109, 97, 103, 101, 95, 48 + n, 46, 106, 112, 103>>

\* C19 (slide order): whatever the order the downloads end in, the file
\* numbered i holds what the i-th url of the list gave, counting from 0; the
\* command takes the images 0..N-1 in that order and then the audio, concats
\* the streams 0..N-1 in that order and takes its audio from input N; and the
\* file that is sent was made of these inputs in this order.
SlideOrder ==
    \A j \in AllJobs :
      \E N \in {Len(job[j].post.image_urls)} :
        /\ \A i \in DOMAIN job[j].downloads :
              job[j].downloads[i] = "ok" =>
                  /\ job[j].image_paths[i] = NumberedPath(job[j].post, i - 1)
                  /\ NumberedPath(job[j].post, i - 1) \in DOMAIN files =>
                        files[NumberedPath(job[j].post, i - 1)].from = job[j].post.image_urls[i]
        /\ Invoked(j) =>
              /\ Len(job[j].cmd.inputs) = N + 1
              /\ \A i \in 1..N : job[j].cmd.inputs[i] = NumberedPath(job[j].post, i - 1)
              /\ job[j].cmd.inputs[N + 1] = audio_path(job[j].temp_dir)
              /\ job[j].cmd.concat = [i \in 1..N |-> i - 1]
              /\ job[j].cmd.audio_input = N
        /\ job[j].body # <<>> =>
              /\ Len(job[j].body.inputs) = N + 1
              /\ \A i \in 1..N : job[j].body.inputs[i].from = job[j].post.image_urls[i]
              /\ job[j].body.inputs[N + 1].from = job[j].post.audio_url

\* A request whose last image arrived first has sent its slideshow.
SlideOrderWitness ==
    \E j \in AllJobs :
        /\ job[j].status = 200
        /\ job[j].pc = "done"
        /\ Len(job[j].arrived) > 1
        /\ job[j].arrived[1] = Len(job[j].downloads)
        /\ job[j].body.inputs[1].from = job[j].post.image_urls[1]

\* ---------------------------------------------------------------- C20
\* The scheduler alone with the folders it finds, and the clock.  The sleep
\* ends and the event loop runs the task: a pass that is due is run, and time
\* does not stand still.
SchedulerNext ==
    \/ \E t \in WorkspaceClock : Elapse(t)
    \/ \E failing \in SUBSET expired_items(file_timestamps, temp_dir, now) : RunCleanup(failing)

SchedulerSpec ==
    /\ WorkspaceInit
    /\ [][SchedulerNext]_vars
    /\ WF_vars(\E t \in WorkspaceClock : Elapse(t))
    /\ WF_vars(\E failing \in SUBSET expired_items(file_timestamps, temp_dir, now) : RunCleanup(failing))

\* C20 (sweep failure isolation): a pass in which the removal of a folder
\* fails still removes every other folder that is more than an hour old; the
\* folder whose removal failed is still there with its entry, under which the
\* next pass takes it up again; and after every pass the next one comes, as
\* long as it is due within the instants of the specification.
SweepFailureIsolation ==
    /\ [][PassStep =>
            /\ cleanup'.last.expired = OlderThanAnHour
            /\ cleanup'.last.failed \subseteq OlderThanAnHour
            /\ DOMAIN temp_dir' = (DOMAIN temp_dir) \ (OlderThanAnHour \ cleanup'.last.failed)
            /\ \A p \in cleanup'.last.failed :
                  /\ p \in DOMAIN temp_dir'
                  /\ p \in DOMAIN file_timestamps'
                  /\ file_timestamps'[p] = TimestampOf(p)
            /\ \A p \in cleanup.last.failed :
                  p \in DOMAIN temp_dir => p \in cleanup'.last.expired
       ]_vars
    /\ \A d \in WorkspaceClock : [](cleanup.due = d => <>(cleanup.last.at >= d))

\* In one pass the removal of one folder failed, for the second time, and
\* another folder was removed.
SweepFailureIsolationWitness ==
    /\ cleanup.last.at = now
    /\ cleanup.last.failed # {}
    /\ cleanup.last.removed # {}
    /\ \E p \in cleanup.last.failed : p \in DOMAIN file_timestamps /\ Age(p) > Retention + CleanupInterval


\* ------------------------------------------------- generate_json_response
\* What generate_json_response reads of the hybrid API's answer, each value
\* named after the last key of its path under data["data"]: type,
\* author.nickname, music.play_url.uri, music.play_url.url,
\* image_data.no_watermark_image_list and the four urls of video_data.  A key
\* that is not there reads None.
TiktokPost(type, nickname, uri, url, images, wm, wm_hq, nwm, nwm_hq) ==
    [t |-> "dict", type |-> type, nickname |-> nickname, uri |-> uri, url |-> url,
     no_watermark_image_list |-> images,
     wm_video_url |-> wm, wm_video_url_HQ |-> wm_hq, nwm_video_url |-> nwm, nwm_video_url_HQ |-> nwm_hq]

\* get_nested_value(data, keys, default) where the path ends at `value`
get_nested_value(value, default) == IF value = None THEN default ELSE value

\* The link generate_encrypted_download_link returns, as a value of the
\* response: a string, or None.
link_value(l) == IF l = <<>> THEN None ELSE JsonStr(l[1])

\* A list of the response.
JsonList(items) == [t |-> "list", s |-> items]

\* A map that keeps what it is given.
keep_nulls(download_links) == download_links

\* Line 303: {k: v for k, v in download_links.items() if v is not None}
remove_nulls(download_links) ==
    [k \in {key \in DOMAIN download_links : download_links[key] # None} |-> download_links[k]]

\* Lines 239-240, 263-264, 299-300: d[key] = value if the condition holds
set_if(condition, d, key, value) == IF condition THEN (key :> value) @@ d ELSE d

\* Line 268: f"{BASE_URL}/download-slideshow?url={encrypt(url, ENCRYPTION_KEY, 360)}"
slideshow_link(url, clock, iv) ==
    BASE_URL \o <<47, 100, 111, 119, 110, 108, 111, 97, 100, 45, 115, 108, 105, 100, 101, 115, 104, 111, 119, 63, 117, 114, 108, 61>> \o encrypt(url, ENCRYPTION_KEY, 360, clock, iv)

\* The response when data["data"] is not a dict (lines 311-322).
error_response(url) ==
    [status |-> "error", photos |-> <<>>, audio |-> None, artist |-> None,
     download_link |-> <<>>, download_slideshow_link |-> <<>>, url |-> url]

\* generate_json_response(data, url) called at `clock`, the cipher drawing
\* `iv`: the response with its status, photos, audio, artist, download_link
\* and, for a photo post, download_slideshow_link (<<>> where the key is not
\* set).
generate_json_response(data, url, clock, iv) ==
    IF data.t # "dict" THEN error_response(url)
    ELSE
    LET is_image == data.type = JsonStr(<<105, 109, 97, 103, 101>>)
        author_nickname == data.nickname
        music_url == get_nested_value(data.uri, get_nested_value(data.url, JsonStr(<<>>)))
        link_for(u, media_type) ==
            link_value(generate_encrypted_download_link(u, author_nickname, JsonStr(media_type),
                                                        ENCRYPTION_KEY, BASE_URL, DefaultExpiry, clock, iv))
        mp3_link == link_for(music_url, <<109, 112, 51>>)
        with_mp3 == set_if(Truthy(mp3_link), <<>>, "mp3", mp3_link)
        no_watermark_images == data.no_watermark_image_list
        picker == [i \in 1..Len(no_watermark_images) |-> no_watermark_images[i]]
        encrypted_image_links ==
            SelectSeq([i \in 1..Len(no_watermark_images) |-> link_for(no_watermark_images[i], <<105, 109, 97, 103, 101>>)], Truthy)
        download_links ==
            set_if(Truthy(mp3_link),
                   [k \in {"watermark", "watermark_hd", "no_watermark", "no_watermark_hd"} |->
                       IF k = "watermark" THEN link_for(data.wm_video_url, <<118, 105, 100, 101, 111>>)
                       ELSE IF k = "watermark_hd" THEN link_for(data.wm_video_url_HQ, <<118, 105, 100, 101, 111>>)
                       ELSE IF k = "no_watermark" THEN link_for(data.nwm_video_url, <<118, 105, 100, 101, 111>>)
                       ELSE link_for(data.nwm_video_url_HQ, <<118, 105, 100, 101, 111>>)],
                   "mp3", mp3_link)
    IN IF is_image
       THEN [status |-> "picker", photos |-> picker, audio |-> music_url, artist |-> author_nickname,
             download_link |-> set_if(encrypted_image_links # <<>>, with_mp3, "no_watermark",
                                      JsonList(encrypted_image_links)),
             download_slideshow_link |-> <<slideshow_link(url, clock, iv)>>, url |-> url]
       ELSE [status |-> "tunnel", photos |-> <<>>, audio |-> music_url, artist |-> author_nickname,
             download_link |-> remove_nulls(download_links),
             download_slideshow_link |-> <<>>, url |-> url]

\* ---------------------------------------------------------- POST /tiktok
\* request.url of the requests: "https://t/p"
PostUrl == <<104, 116, 116, 112, 115, 58, 47, 47, 116, 47, 112>>

\* Answers of the hybrid API.  Videos: every url there; only the one without
\* watermark, the HQ ones empty, the music under play_url.url; no url at all;
\* a nickname that holds "_*_".  Photo posts: two images and music; one image
\* and an empty entry, no music; no image.  And an answer whose "data" is null.
FullVideo == TiktokPost(JsonStr(<<118, 105, 100, 101, 111>>), JsonStr(<<97>>), JsonStr(<<109>>), None, <<>>, JsonStr(<<119>>), JsonStr(<<119, 104>>), JsonStr(<<110>>), JsonStr(<<110, 104>>))

SparseVideo == TiktokPost(JsonStr(<<118, 105, 100, 101, 111>>), JsonStr(<<97>>), None, JsonStr(<<109>>), <<>>, None, JsonStr(<<>>), JsonStr(<<110>>), JsonStr(<<>>))

EmptyVideo == TiktokPost(JsonStr(<<118, 105, 100, 101, 111>>), JsonStr(<<97>>), None, None, <<>>, None, None, None, None)

StarVideo == TiktokPost(JsonStr(<<118, 105, 100, 101, 111>>), JsonStr(<<97, 95, 42, 95, 98>>), None, None, <<>>, None, None, JsonStr(<<110>>), None)

PhotoPost == TiktokPost(JsonStr(<<105, 109, 97, 103, 101>>), JsonStr(<<97>>), JsonStr(<<109>>), None, <<JsonStr(<<105, 49>>), JsonStr(<<105, 50>>)>>, None, None, None, None)

GappedPhotoPost == TiktokPost(JsonStr(<<105, 109, 97, 103, 101>>), JsonStr(<<97>>), None, None, <<JsonStr(<<105, 49>>), JsonStr(<<>>)>>, None, None, None, None)

EmptyPhotoPost == TiktokPost(JsonStr(<<105, 109, 97, 103, 101>>), JsonStr(<<97>>), None, None, <<>>, None, None, None, None)

TiktokAnswers ==
    {FullVideo, SparseVideo, EmptyVideo, StarVideo, PhotoPost, GappedPhotoPost, EmptyPhotoPost, None}

\* tiktok_endpoint, from its entry to the await of client.get (lines 327-337)
TiktokRequest(url) ==
    /\ tiktok.pc = "idle"
    /\ tiktok' = IF url = <<>>
                 THEN [NoTiktok EXCEPT !.pc = "failed", !.status = 400]
                 ELSE [NoTiktok EXCEPT !.pc = "fetch", !.url = url]
    /\ UNCHANGED <<now, tok, call, origin, out, outKey, link, req, file_timestamps, temp_dir, files, job, cleanup>>

\* The hybrid API answers: lines 339-350.  Any status but 200 raises, and the
\* except clause answers 500.
TiktokResponds(status_code, data, iv) ==
    /\ tiktok.pc = "fetch"
    /\ tiktok' = IF status_code # 200
                 THEN [tiktok EXCEPT !.pc = "failed", !.status = 500]
                 ELSE [tiktok EXCEPT !.pc = "done", !.status = 200, !.at = now, !.data = data,
                                     !.response = generate_json_response(data, tiktok.url, now, iv)]
    /\ UNCHANGED <<now, tok, call, origin, out, outKey, link, req, file_timestamps, temp_dir, files, job, cleanup>>

\* The links of a response's download_link map, those of its lists too.
DownloadLinks(response) ==
    UNION {IF response.download_link[k].t = "list"
           THEN {response.download_link[k].s[i].s : i \in 1..Len(response.download_link[k].s)}
           ELSE {response.download_link[k].s} : k \in DOMAIN response.download_link}

\* The query strings' values of the links the service has issued: for
\* /download, and for /download-slideshow.
DownloadTokens == IF tiktok.pc = "done" THEN {link_token(l) : l \in DownloadLinks(tiktok.response)} ELSE {}

SlideshowTokens ==
    IF tiktok.pc = "done"
    THEN {link_token(tiktok.response.download_slideshow_link[i]) :
             i \in 1..Len(tiktok.response.download_slideshow_link)}
    ELSE {}

\* One POST /tiktok, then the tokens of its response presented to /download
\* and to /download-slideshow, each token to either endpoint.
TiktokNext ==
    \/ \E t \in GatewayClock : Tick(t)
    \/ /\ now \in ClockAround({0})
       /\ \E url \in {<<>>, PostUrl} : TiktokRequest(url)
    \/ \E status_code \in {200, 503}, data \in TiktokAnswers : TiktokResponds(status_code, data, IVOf(7))
    \/ \E raw \in DownloadTokens \cup SlideshowTokens : DownloadRequest("r1", raw, FALSE)
    \/ \E raw \in DownloadTokens \cup SlideshowTokens : SlideshowRequest("j1", query_param(raw))

TiktokSpec == Init /\ [][TiktokNext]_vars

\* ------------------------------------------------------------------ C21
\* The url a variant of a video's download_link is made of (lines 284-296).
VariantSource(data, k) ==
    IF k = "watermark" THEN data.wm_video_url
    ELSE IF k = "watermark_hd" THEN data.wm_video_url_HQ
    ELSE IF k = "no_watermark" THEN data.nwm_video_url
    ELSE data.nwm_video_url_HQ

\* POST /tiktok has answered with a success response.
Answered == tiktok.pc = "done" /\ tiktok.response.status \in {"picker", "tunnel"}

\* C21: absent resources are omitted, never null.
\* generate_encrypted_download_link returns None for a url that is None or
\* empty; in every success response of generate_json_response no value of
\* download_link is None, no entry of a list of links is None, and a variant
\* whose source url is absent or empty has no key in the map.
AbsentOmitted ==
    /\ \A url \in {None, JsonStr(<<>>)} :
          generate_encrypted_download_link(url, JsonStr(<<97>>), JsonStr(<<118, 105, 100, 101, 111>>), ENCRYPTION_KEY,
                                           BASE_URL, DefaultExpiry, now, IVOf(7)) = <<>>
    /\ Answered =>
          LET download_link == tiktok.response.download_link
              data == tiktok.data
          IN /\ \A k \in DOMAIN download_link :
                   /\ download_link[k] # None
                   /\ download_link[k].t = "list" =>
                         /\ download_link[k].s # <<>>
                         /\ \A i \in 1..Len(download_link[k].s) : Truthy(download_link[k].s[i])
             /\ (~Truthy(data.uri) /\ ~Truthy(data.url)) => "mp3" \notin DOMAIN download_link
             /\ tiktok.response.status = "tunnel" =>
                   \A k \in {"watermark", "watermark_hd", "no_watermark", "no_watermark_hd"} :
                      ~Truthy(VariantSource(data, k)) => k \notin DOMAIN download_link
             /\ tiktok.response.status = "picker" =>
                   /\ (\A i \in 1..Len(data.no_watermark_image_list) : ~Truthy(data.no_watermark_image_list[i]))
                         => "no_watermark" \notin DOMAIN download_link
                   /\ "no_watermark" \in DOMAIN download_link =>
                         Len(download_link["no_watermark"].s) =
                            Cardinality({i \in 1..Len(data.no_watermark_image_list) :
                                            Truthy(data.no_watermark_image_list[i])})

\* A video with no watermarked url and empty HQ urls, answered with a map
\* that holds the one variant there is and the mp3.
AbsentOmittedWitness ==
    /\ Answered
    /\ tiktok.response.status = "tunnel"
    /\ tiktok.data.wm_video_url = None
    /\ tiktok.data.wm_video_url_HQ = JsonStr(<<>>)
    /\ DOMAIN tiktok.response.download_link = {"no_watermark", "mp3"}

\* ------------------------------------------------------------------ C22
\* The request ended on the check of line 388.
UnsupportedKind(result) ==
    /\ result.kind = "raise"
    /\ \E i \in 1..Len(result.msg) : result.msg[i] = "Invalid file type specified"

\* Request r presented the token of an issued download link within its 360
\* seconds.
IssuedInTime(r) ==
    /\ req[r].pc # "idle"
    /\ \E raw \in DownloadTokens : req[r].data = query_param(raw)
    /\ ~is_expired(req[r].at, tiktok.at, DefaultExpiry)

\* C22: every issued link passes dispatch.  The kinds generate_json_response
\* puts into its tokens ("mp3" for the audio, "image", "video") are keys of
\* content_type_map, so /download never answers a link of a response, presented
\* within its 360 seconds, with the failure of an unsupported kind; what it
\* streams has the content type of one of the three kinds.
IssuedLinksDispatch ==
    /\ {<<109, 112, 51>>, <<105, 109, 97, 103, 101>>, <<118, 105, 100, 101, 111>>} \subseteq DOMAIN content_type_map
    /\ \A r \in AllReqs :
          IssuedInTime(r) =>
             /\ ~UnsupportedKind(req[r].result)
             /\ req[r].result.kind = "return" =>
                   req[r].result.value.media_type \in {"audio/mpeg", "image/jpeg", "video/mp4"}

\* The mp3 link of a response, resolved within its time: audio/mpeg.
IssuedLinksDispatchWitness ==
    /\ IssuedInTime("r1")
    /\ req["r1"].result.kind = "return"
    /\ req["r1"].result.value.media_type = "audio/mpeg"
    /\ req["r1"].at > tiktok.at

\* ------------------------------------------------------------------ C23
\* C23: tokens are bound to their endpoint.  The token of a /download link
\* presented to /download-slideshow within its 360 seconds is refused before
\* any outbound request, and the token of a /download-slideshow link
\* presented to /download is refused before any outbound request.
TokensBoundToEndpoint ==
    [][/\ \A j \in AllJobs :
             (/\ job[j].pc = "idle" /\ job'[j].pc # "idle"
              /\ \E raw \in DownloadTokens : job'[j].url = query_param(raw)
              /\ ~is_expired(now, tiktok.at, DefaultExpiry))
                 => job'[j].pc = "failed"
       /\ \A r \in AllReqs :
             (/\ req[r].pc = "idle" /\ req'[r].pc # "idle"
              /\ \E raw \in SlideshowTokens : req'[r].data = query_param(raw))
                 => req'[r].pc = "failed"]_vars

\* ------------------------------------------------------------------ C24
\* The background task of some request is still to run.
PendingRelease == \E j \in AllJobs : job[j].pc = "sent"

\* C24: the tracking map matches the disk.  After any acquires, releases
\* after the response and passes of the sweep, once no release is pending,
\* every path recorded in file_timestamps names a folder that still exists: a
\* release takes the entry of the workspace away together with its folder.
TrackingMatchesDisk ==
    ~PendingRelease => \A path \in DOMAIN file_timestamps : path \in DOMAIN temp_dir

============================================================================
